---- MODULE Spec2Model ----
(***************************************************************************)
(* Economy transaction engine of the Astryx economy bot.                   *)
(*                                                                         *)
(* The store (Supabase/PostgREST over the tables of                        *)
(* scripts/001_create_economy_tables.sql) is modelled as tables; every     *)
(* command handler is a sequence of store round trips (its awaits), each   *)
(* an atomic step.  Handlers of different interactions interleave at       *)
(* those steps.                                                            *)
(*                                                                         *)
(* Units: time in whole hours; rates (rob_success_rate,                    *)
(* rob_penalty_percent, effect values of work_boost / rob_defense) in      *)
(* hundredths; a Math.random() draw in thousandths (0..999).               *)
(***************************************************************************)
EXTENDS Integers, Sequences, FiniteSets, TLC

VARIABLES
    profiles,      \* table profiles: user id -> row (DOMAIN = existing rows)
    inventory,     \* table inventory: set of rows [user, item, quantity]
    cooldowns,     \* table cooldowns: set of rows [user, command, expires_at]
    transactions,  \* table transactions: the audit log, in insertion order
    settings,      \* the single server_settings row
    now,           \* wall clock, hours
    reqs,          \* interaction slot -> state of the handler running in it
    started,       \* number of interactions dispatched so far
    credited,      \* user -> sum of the coin deltas its committed writes meant
    robIn,         \* inputs of the rob-resolution check (SpecRob)
    robOut         \* results of the rob-resolution check (SpecRob)

vars == <<profiles, inventory, cooldowns, transactions, settings, now, reqs,
          started, credited, robIn, robOut>>

----------------------------------------------------------------------------
(* Bounds of the model *)

MaxOps == 2        \* interactions dispatched in one run of Spec
MaxSeqOps == 2     \* handlers run in one run of SpecSeq
MaxTicks == 1      \* clock advances in one run
MaxStreak == 21    \* longest daily streak an account of SpecDaily starts with
MaxAuditOps == 1   \* handlers run in one run of SpecAudit
MaxScenarioOps == 4 \* handlers run in one run of SpecScenario
MaxEntryOps == 2   \* handlers run in one run of SpecEntry
MaxSteadyOps == 3  \* handlers run in one run of SpecSteady
MaxWait == 48      \* hours the clock of SpecSteady may advance

(* Program constants *)

StartCoins == 1000       \* getProfile: coins of a new profile
XpPerLevel == 1000       \* Math.floor(newXP / 1000) + 1
DailyXp == 10            \* daily: xpGain
StreakStep == 50         \* daily: newStreak * 50
StreakCap == 500         \* daily: Math.min(..., 500)
StreakMinHours == 24     \* daily: hoursSinceDaily >= 24
StreakMaxHours == 48     \* daily: hoursSinceDaily <= 48
WorkXpDivisor == 10      \* work: Math.floor(totalAmount / 10)
MinCooldownHours == 1    \* work: Math.max(1, cooldownHours - effect.value)
RobMinTarget == 500      \* rob: targetProfile.coins < 500
RobMinRobber == 100      \* rob: robberProfile.coins < 100
MinSuccessRate == 10     \* rob: Math.max(0.1, ...), hundredths
SellPercent == 60        \* sell: Math.floor(item.price * 0.6)
DailyBoostCoins == 250   \* use daily_boost: boostAmount
NoTime == -1             \* a null timestamp (last_daily, last_work)
T0 == 100                \* the clock when the run starts

Users == {"u1", "u2"}
Slots == {1, 2}
CooldownCommands == {"daily", "work", "rob"}

Floor(a, b) == a \div b      \* Math.floor(a / b) for b > 0 (\div floors)

Level(xp) == Floor(xp, XpPerLevel) + 1

Max(a, b) == IF a >= b THEN a ELSE b
Min(a, b) == IF a <= b THEN a ELSE b

----------------------------------------------------------------------------
(* Catalog: the items table.  effect is the jsonb descriptor              *)
(* {type, value, command, effect}; type "none" is a null effect.          *)

NoEffect == [type |-> "none", value |-> 0, command |-> "", effect |-> ""]

Effect(t, v, c, e) == [type |-> t, value |-> v, command |-> c, effect |-> e]

Catalog ==
    [ pickaxe  |-> [price |-> 1000,  effect |-> Effect("work_boost", 10, "", "")],
      drill    |-> [price |-> 1200,  effect |-> Effect("work_boost", 25, "", "")],
      sword    |-> [price |-> 500,   effect |-> Effect("rob_defense", 10, "", "")],
      excal    |-> [price |-> 5000,  effect |-> Effect("rob_defense", 75, "", "")],
      watch    |-> [price |-> 800,   effect |-> Effect("cooldown_reduction", 1, "work", "")],
      clock    |-> [price |-> 1500,  effect |-> Effect("cooldown_reduction", 2, "work", "")],
      sundial  |-> [price |-> 1500,  effect |-> Effect("cooldown_reduction", 1, "daily", "")],
      potion   |-> [price |-> 1000,  effect |-> Effect("consumable", 500, "", "xp_grant")],
      coupon   |-> [price |-> 298,   effect |-> Effect("consumable", 0, "", "daily_boost")],
      drink    |-> [price |-> 200,   effect |-> Effect("consumable", 1, "work", "cooldown_restore")],
      medal    |-> [price |-> 2500,  effect |-> NoEffect] ]

ItemIds == DOMAIN Catalog

----------------------------------------------------------------------------
(* Store operations: one PostgREST round trip each *)

NewProfile ==
    [coins |-> StartCoins, xp |-> 0, level |-> 1, daily_streak |-> 0,
     last_daily |-> NoTime, last_work |-> NoTime, rob_attempts |-> 0]

HasProfile(db, u) == u \in DOMAIN db.profiles

\* insert into profiles: id is the primary key
InsertProfile(db, u) ==
    [db EXCEPT !.profiles = (u :> NewProfile) @@ db.profiles]

\* update profiles set <updates> where id = u
ApplyUpdates(row, updates) ==
    [f \in DOMAIN row |-> IF f \in DOMAIN updates THEN updates[f] ELSE row[f]]

UpdateRow(db, u, updates) ==
    [db EXCEPT !.profiles = [db.profiles EXCEPT ![u] = ApplyUpdates(@, updates)]]

CooldownRows(db, u, c) == {row \in db.cooldowns : row.user = u /\ row.command = c}

\* delete from cooldowns where user_id = u and command = c
DeleteCooldown(db, u, c) ==
    [db EXCEPT !.cooldowns = db.cooldowns \ CooldownRows(db, u, c)]

\* cooldowns.upsert({user_id, command, expires_at}): the row carries no id, so
\* the conflict target (the primary key id, generated) never matches and the
\* statement is an insert, subject to unique(user_id, command); a violation is
\* returned as an error, which setCooldown does not look at.
UpsertCooldown(db, u, c, expires) ==
    IF CooldownRows(db, u, c) # {}
    THEN db
    ELSE [db EXCEPT !.cooldowns =
             db.cooldowns \cup {[user |-> u, command |-> c, expires_at |-> expires]}]

InventoryOf(db, u) == {row \in db.inventory : row.user = u}

InventoryRows(db, u, i) == {row \in db.inventory : row.user = u /\ row.item = i}

\* transaction.amount || null: a null amount is <<>>, an amount a is <<a>>
OrNullAmount(a) == IF a = 0 THEN <<>> ELSE <<a>>

Transaction(u, type, amount, target, item, meta) ==
    [user |-> u, type |-> type, amount |-> OrNullAmount(amount),
     target |-> target, item |-> item, meta |-> meta]

InsertTransaction(db, tx) == [db EXCEPT !.transactions = Append(@, tx)]

----------------------------------------------------------------------------
(* Handler state *)

ZeroDelta == [u \in Users |-> 0]

NoProfile == [NewProfile EXCEPT !.coins = 0]

IdleReq ==
    [cmd |-> "none", user |-> "u1", target |-> "u1", amount |-> 0, item |-> "",
     rnd1 |-> 0, rnd2 |-> 0, fail |-> {},
     pc |-> "idle", reply |-> "",
     prof |-> NoProfile, tprof |-> NoProfile, inv |-> {}, tinv |-> {},
     at |-> NoTime, thrown |-> FALSE, cd |-> ""]

NewReq(cmd, u, v, amount, item, rnd1, rnd2, fail, pc) ==
    [IdleReq EXCEPT !.cmd = cmd, !.user = u, !.target = v, !.amount = amount,
                    !.item = item, !.rnd1 = rnd1, !.rnd2 = rnd2, !.fail = fail,
                    !.pc = pc]

Out(db, r) == [db |-> db, r |-> r, delta |-> ZeroDelta]

OutDelta(db, r, u, d) == [db |-> db, r |-> r, delta |-> [ZeroDelta EXCEPT ![u] = d]]

Goto(db, r, pc) == Out(db, [r EXCEPT !.pc = pc])

Reply(db, r, msg) == Out(db, [r EXCEPT !.pc = "done", !.reply = msg])

----------------------------------------------------------------------------
(* database.js helpers, as the steps the handlers take *)

\* updateProfile: throws when the store reports an error
updateFails(r, op) == op \in r.fail

\* a logTransaction whose failure puts the caller's account back as it was read
logTransactionRollsBack(db, r, tx) ==
    IF "log" \in r.fail
    THEN [db EXCEPT !.profiles =
             [u \in DOMAIN db.profiles |->
                 IF u = r.user THEN r.prof ELSE db.profiles[u]]]
    ELSE InsertTransaction(db, tx)

\* logTransaction: an insert error is printed and swallowed
logTransaction(db, r, tx) ==
    IF "log" \in r.fail THEN db ELSE InsertTransaction(db, tx)

\* a check that takes any cooldown of the user for the one of the command
checkCooldownSelectAnyCommand(db, t, r, c, next) ==
    LET rows == {row \in db.cooldowns : row.user = r.user} IN
    IF rows = {}
    THEN Out(db, [r EXCEPT !.pc = next, !.cd = "none"])
    ELSE LET row == CHOOSE x \in rows : \A y \in rows : y.expires_at <= x.expires_at IN
         IF row.expires_at > t
         THEN Out(db, [r EXCEPT !.pc = "done", !.reply = "cooldown", !.cd = "active"])
         ELSE Out(db, [r EXCEPT !.pc = "cd_delete", !.cd = "expired"])

\* a check that still blocks at the very time of expiry
checkCooldownSelectInclusive(db, t, r, c, next) ==
    LET rows == CooldownRows(db, r.user, c) IN
    IF rows = {}
    THEN Out(db, [r EXCEPT !.pc = next, !.cd = "none"])
    ELSE LET row == CHOOSE x \in rows : TRUE IN
         IF row.expires_at >= t
         THEN Out(db, [r EXCEPT !.pc = "done", !.reply = "cooldown", !.cd = "active"])
         ELSE Out(db, [r EXCEPT !.pc = "cd_delete", !.cd = "expired"])

\* checkCooldown, the select and the comparison with the clock
checkCooldownSelect(db, t, r, c, next) ==
    LET rows == CooldownRows(db, r.user, c) IN
    IF rows = {}
    THEN Out(db, [r EXCEPT !.pc = next, !.cd = "none"])
    ELSE LET row == CHOOSE x \in rows : TRUE IN
         IF row.expires_at > t
         THEN Out(db, [r EXCEPT !.pc = "done", !.reply = "cooldown", !.cd = "active"])
         ELSE Out(db, [r EXCEPT !.pc = "cd_delete", !.cd = "expired"])

\* checkCooldown, the delete of the expired entry (its result is not read)
checkCooldownDelete(db, r, c, next) ==
    IF "cd_delete" \in r.fail
    THEN Goto(db, r, next)
    ELSE Goto(DeleteCooldown(db, r.user, c), r, next)

\* a cooldown that ends one hour early
setCooldownShort(db, t, r, c, hours) ==
    IF "set_cd" \in r.fail THEN db ELSE UpsertCooldown(db, r.user, c, t + hours - 1)

\* setCooldown: expiresAt = new Date() + hours, then the upsert (result not read)
setCooldown(db, t, r, c, hours) ==
    IF "set_cd" \in r.fail THEN db ELSE UpsertCooldown(db, r.user, c, t + hours)

\* getProfile, the select; field is the local the row is bound to
getProfileSelect(db, t, r, u, field, next, insertPc) ==
    IF HasProfile(db, u)
    THEN Out(db, [r EXCEPT ![field] = db.profiles[u], !.pc = next, !.at = t])
    ELSE Goto(db, r, insertPc)

\* an insert that replaces the row another handler created meanwhile
getProfileInsertOverwrites(db, t, r, u, field, next) ==
    Out(InsertProfile(db, u),
        [r EXCEPT ![field] = NewProfile, !.pc = next, !.at = t])

\* getProfile, the insert of a missing profile; a duplicate key throws
getProfileInsert(db, t, r, u, field, next) ==
    IF HasProfile(db, u)
    THEN Reply(db, r, "error")
    ELSE Out(InsertProfile(db, u),
             [r EXCEPT ![field] = NewProfile, !.pc = next, !.at = t])

\* getInventory: the rows of the user, each joined with its item
getInventory(db, t, r, u, field, next) ==
    Out(db, [r EXCEPT ![field] = InventoryOf(db, u), !.pc = next, !.at = t])

effectOf(row) == Catalog[row.item].effect

----------------------------------------------------------------------------
(* /daily *)

dailyTooSoon(prof, at) ==
    /\ prof.last_daily # NoTime
    /\ at - prof.last_daily < StreakMinHours

\* a streak window that treats the 48th hour as already too late
dailyStreakExclusive(prof, at) ==
    IF prof.last_daily = NoTime
    THEN 0
    ELSE LET hoursSinceDaily == at - prof.last_daily IN
         IF hoursSinceDaily >= StreakMinHours /\ hoursSinceDaily < StreakMaxHours
         THEN prof.daily_streak + 1
         ELSE 0

dailyStreak(prof, at) ==
    IF prof.last_daily = NoTime
    THEN 0
    ELSE LET hoursSinceDaily == at - prof.last_daily IN
         IF hoursSinceDaily >= StreakMinHours /\ hoursSinceDaily <= StreakMaxHours
         THEN prof.daily_streak + 1
         ELSE 0

\* a streak bonus without its cap
dailyTotalUncapped(prof, at, s) ==
    s.daily_amount + dailyStreak(prof, at) * StreakStep

dailyTotal(prof, at, s) ==
    s.daily_amount + Min(dailyStreak(prof, at) * StreakStep, StreakCap)

dailyUpdatesStaleLevel(prof, at, s) ==
    [coins |-> prof.coins + dailyTotal(prof, at, s),
     xp |-> prof.xp + DailyXp,
     level |-> Level(prof.xp),
     daily_streak |-> dailyStreak(prof, at),
     last_daily |-> at]

dailyUpdates(prof, at, s) ==
    [coins |-> prof.coins + dailyTotal(prof, at, s),
     xp |-> prof.xp + DailyXp,
     level |-> Level(prof.xp + DailyXp),
     daily_streak |-> dailyStreak(prof, at),
     last_daily |-> at]

dailyUpdate(db, r) ==
    IF dailyTooSoon(r.prof, r.at)
    THEN Reply(db, r, "already_claimed")
    ELSE IF updateFails(r, "upd1")
    THEN Reply(db, r, "error")
    ELSE OutDelta(UpdateRow(db, r.user, dailyUpdates(r.prof, r.at, db.settings)),
                  [r EXCEPT !.pc = "set_cd"],
                  r.user, dailyTotal(r.prof, r.at, db.settings))

dailyLog(db, r) ==
    logTransaction(db, r,
        Transaction(r.user, "daily", dailyTotal(r.prof, r.at, db.settings), "null", "null",
                    [streak |-> dailyStreak(r.prof, r.at), xp_gain |-> DailyXp]))

dailyStep(db, t, r) ==
    CASE r.pc = "cd_select" -> checkCooldownSelect(db, t, r, "daily", "gp_select")
      [] r.pc = "cd_delete" -> checkCooldownDelete(db, r, "daily", "gp_select")
      [] r.pc = "gp_select" -> getProfileSelect(db, t, r, r.user, "prof", "update", "gp_insert")
      [] r.pc = "gp_insert" -> getProfileInsert(db, t, r, r.user, "prof", "update")
      [] r.pc = "update"    -> dailyUpdate(db, r)
      [] r.pc = "set_cd"    ->
            Goto(setCooldown(db, t, r, "daily", db.settings.daily_cooldown_hours), r, "log")
      [] r.pc = "log"       -> Reply(dailyLog(db, r), r, "ok")

----------------------------------------------------------------------------
(* /work *)

\* Math.floor(Math.random() * (max - min + 1) + min), the draw in thousandths
workBase(rnd, s) ==
    Floor(rnd * (s.work_max_amount - s.work_min_amount + 1), 1000) + s.work_min_amount

\* a loop whose comparison is turned around and keeps the smallest boost
RECURSIVE workBoostLoopSmallest(_, _)
workBoostLoopSmallest(rows, totalBoost) ==
    IF rows = {}
    THEN totalBoost
    ELSE LET invItem == CHOOSE x \in rows : TRUE
             effect == effectOf(invItem)
         IN workBoostLoopSmallest(rows \ {invItem},
                IF effect.type = "work_boost"
                   /\ (totalBoost = 0 \/ effect.value < totalBoost)
                THEN effect.value
                ELSE totalBoost)

\* the loop over the inventory keeping the largest work_boost value
RECURSIVE workBoostLoop(_, _)
workBoostLoop(rows, totalBoost) ==
    IF rows = {}
    THEN totalBoost
    ELSE LET invItem == CHOOSE x \in rows : TRUE
             effect == effectOf(invItem)
         IN workBoostLoop(rows \ {invItem},
                IF effect.type = "work_boost" /\ effect.value > totalBoost
                THEN effect.value
                ELSE totalBoost)

workBoost(inv) == workBoostLoop(inv, 0)

workBestTool(inv) ==
    IF workBoost(inv) = 0
    THEN "null"
    ELSE (CHOOSE x \in inv : effectOf(x).type = "work_boost"
                              /\ effectOf(x).value = workBoost(inv)).item

workBoostAmount(r, s) == Floor(workBase(r.rnd1, s) * workBoost(r.inv), 100)

workTotal(r, s) == workBase(r.rnd1, s) + workBoostAmount(r, s)

\* an xp gain computed from the base amount, the boost left out
workXpGainOfBase(r, s) == Floor(workBase(r.rnd1, s), WorkXpDivisor)

workXpGain(r, s) == Floor(workTotal(r, s), WorkXpDivisor)

\* an update that pays the base amount and leaves the boost out
workUpdatesBaseOnly(r, s) ==
    [coins |-> r.prof.coins + workBase(r.rnd1, s),
     xp |-> r.prof.xp + workXpGain(r, s),
     level |-> Level(r.prof.xp + workXpGain(r, s)),
     last_work |-> r.at]

workUpdates(r, s) ==
    [coins |-> r.prof.coins + workTotal(r, s),
     xp |-> r.prof.xp + workXpGain(r, s),
     level |-> Level(r.prof.xp + workXpGain(r, s)),
     last_work |-> r.at]

\* the loop over the inventory subtracting every cooldown_reduction for "work"
RECURSIVE workCooldownLoop(_, _)
workCooldownLoop(rows, cooldownHours) ==
    IF rows = {}
    THEN cooldownHours
    ELSE LET invItem == CHOOSE x \in rows : TRUE
             effect == effectOf(invItem)
         IN workCooldownLoop(rows \ {invItem},
                IF effect.type = "cooldown_reduction" /\ effect.command = "work"
                THEN Max(MinCooldownHours, cooldownHours - effect.value)
                ELSE cooldownHours)

workCooldownHours(inv, s) == workCooldownLoop(inv, s.work_cooldown_hours)

workUpdate(db, r) ==
    IF updateFails(r, "upd1")
    THEN Reply(db, r, "error")
    ELSE OutDelta(UpdateRow(db, r.user, workUpdates(r, db.settings)),
                  [r EXCEPT !.pc = "set_cd"],
                  r.user, workTotal(r, db.settings))

workLog(db, r) ==
    logTransaction(db, r,
        Transaction(r.user, "work", workTotal(r, db.settings), "null", "null",
                    [base |-> workBase(r.rnd1, db.settings),
                     boost |-> workBoostAmount(r, db.settings),
                     tool |-> workBestTool(r.inv),
                     xp_gain |-> workXpGain(r, db.settings)]))

workStep(db, t, r) ==
    CASE r.pc = "cd_select"  -> checkCooldownSelect(db, t, r, "work", "gp_select")
      [] r.pc = "cd_delete"  -> checkCooldownDelete(db, r, "work", "gp_select")
      [] r.pc = "gp_select"  -> getProfileSelect(db, t, r, r.user, "prof", "inv_select", "gp_insert")
      [] r.pc = "gp_insert"  -> getProfileInsert(db, t, r, r.user, "prof", "inv_select")
      [] r.pc = "inv_select" -> getInventory(db, t, r, r.user, "inv", "update")
      [] r.pc = "update"     -> workUpdate(db, r)
      [] r.pc = "set_cd"     ->
            Goto(setCooldown(db, t, r, "work", workCooldownHours(r.inv, db.settings)), r, "log")
      [] r.pc = "log"        -> Reply(workLog(db, r), r, "ok")

----------------------------------------------------------------------------
(* /pay *)

\* a balance check that reads the recipient's profile
payInsufficientRecipient(r) == r.tprof.coins < r.amount

payInsufficient(r) == r.prof.coins < r.amount

\* Promise.all of the two updateProfile calls: both requests are sent, so a
\* failure of one does not stop the other; the handler throws afterwards.
payDebit(db, r) ==
    IF payInsufficient(r)
    THEN Reply(db, r, "insufficient")
    ELSE IF updateFails(r, "upd1")
    THEN Out(db, [r EXCEPT !.pc = "upd2", !.thrown = TRUE])
    ELSE OutDelta(UpdateRow(db, r.user, [coins |-> r.prof.coins - r.amount]),
                  [r EXCEPT !.pc = "upd2"], r.user, -r.amount)

payCredit(db, r) ==
    IF updateFails(r, "upd2")
    THEN Reply(db, r, "error")
    ELSE LET db2 == UpdateRow(db, r.target, [coins |-> r.tprof.coins + r.amount]) IN
         IF r.thrown
         THEN OutDelta(db2, [r EXCEPT !.pc = "done", !.reply = "error"], r.target, r.amount)
         ELSE OutDelta(db2, [r EXCEPT !.pc = "log"], r.target, r.amount)

\* a pay that logs the recipient's record only
payLogSenderSkipped(db, r) == db

payLogSender(db, r) ==
    logTransaction(db, r, Transaction(r.user, "pay", -r.amount, r.target, "null", <<>>))

\* a recipient record that names the recipient as its own counterparty
payLogRecipientSelf(db, r) ==
    logTransaction(db, r, Transaction(r.target, "pay", r.amount, r.target, "null", <<>>))

payLogRecipient(db, r) ==
    logTransaction(db, r, Transaction(r.target, "pay", r.amount, r.user, "null", <<>>))

payStep(db, t, r) ==
    CASE r.pc = "gp_select"  ->
            IF r.user = r.target
            THEN Reply(db, r, "self")
            ELSE getProfileSelect(db, t, r, r.user, "prof", "gp2_select", "gp_insert")
      [] r.pc = "gp_insert"  -> getProfileInsert(db, t, r, r.user, "prof", "gp2_select")
      [] r.pc = "gp2_select" -> getProfileSelect(db, t, r, r.target, "tprof", "upd1", "gp2_insert")
      [] r.pc = "gp2_insert" -> getProfileInsert(db, t, r, r.target, "tprof", "upd1")
      [] r.pc = "upd1"       -> payDebit(db, r)
      [] r.pc = "upd2"       -> payCredit(db, r)
      [] r.pc = "log"        -> Goto(payLogSender(db, r), r, "log2")
      [] r.pc = "log2"       -> Reply(payLogRecipient(db, r), r, "ok")

----------------------------------------------------------------------------
(* /rob *)

\* the loop over the target's inventory keeping the largest rob_defense value
RECURSIVE robDefenseLoop(_, _)
robDefenseLoop(rows, targetDefense) ==
    IF rows = {}
    THEN targetDefense
    ELSE LET invItem == CHOOSE x \in rows : TRUE
             effect == effectOf(invItem)
         IN robDefenseLoop(rows \ {invItem},
                IF effect.type = "rob_defense"
                THEN Max(targetDefense, effect.value)
                ELSE targetDefense)

robDefense(targetInventory) == robDefenseLoop(targetInventory, 0)

\* a rate that lets the robber's own rob_defense items raise the chance
robSuccessRateAttacker(s, robberInventory, targetInventory) ==
    Max(MinSuccessRate,
        s.rob_success_rate - robDefense(targetInventory) + robDefense(robberInventory))

\* a rate without the 10% floor
robSuccessRateNoFloor(s, robberInventory, targetInventory) ==
    s.rob_success_rate - robDefense(targetInventory)

\* actualSuccessRate; robberInventory is fetched by the handler and not used
robSuccessRate(s, robberInventory, targetInventory) ==
    Max(MinSuccessRate, s.rob_success_rate - robDefense(targetInventory))

\* Math.random() < actualSuccessRate
robSuccess(r, s) == r.rnd1 < robSuccessRate(s, r.inv, r.tinv) * 10

\* a share taken of the robber's own balance
robAmountOfRobber(r) == Floor(r.prof.coins * (2 * r.rnd2 + 1000), 10000)

\* Math.floor(coins * (Math.random() * 0.2 + 0.1))
robAmount(r) == Floor(r.tprof.coins * (2 * r.rnd2 + 1000), 10000)

\* a penalty taken from the target's balance instead of the robber's
robPenaltyOfTarget(r, s) == Floor(r.tprof.coins * s.rob_penalty_percent, 100)

\* a penalty rounded to the nearest coin
robPenaltyRounded(r, s) == Floor(r.prof.coins * s.rob_penalty_percent + 50, 100)

\* Math.floor(coins * rob_penalty_percent)
robPenalty(r, s) == Floor(r.prof.coins * s.rob_penalty_percent, 100)

\* a threshold check that looks at the wrong side of the robbery
robRejectionSwapped(r) ==
    IF r.prof.coins < RobMinTarget THEN "target_poor"
    ELSE IF r.tprof.coins < RobMinRobber THEN "robber_poor"
    ELSE ""

\* the minimum-balance checks; "" when the robbery goes ahead
robRejection(r) ==
    IF r.tprof.coins < RobMinTarget THEN "target_poor"
    ELSE IF r.prof.coins < RobMinRobber THEN "robber_poor"
    ELSE ""

robResolve(db, r) ==
    IF robRejection(r) # ""
    THEN Reply(db, r, robRejection(r))
    ELSE IF robSuccess(r, db.settings)
    THEN IF updateFails(r, "upd1")
         THEN Out(db, [r EXCEPT !.pc = "upd2", !.thrown = TRUE])
         ELSE OutDelta(UpdateRow(db, r.user,
                           [coins |-> r.prof.coins + robAmount(r),
                            rob_attempts |-> r.prof.rob_attempts + 1]),
                       [r EXCEPT !.pc = "upd2"], r.user, robAmount(r))
    ELSE IF updateFails(r, "upd1")
         THEN Reply(db, r, "error")
         ELSE OutDelta(UpdateRow(db, r.user,
                           [coins |-> r.prof.coins - robPenalty(r, db.settings),
                            rob_attempts |-> r.prof.rob_attempts + 1]),
                       [r EXCEPT !.pc = "log"], r.user, -robPenalty(r, db.settings))

robTakeFromTarget(db, r) ==
    IF updateFails(r, "upd2")
    THEN Reply(db, r, "error")
    ELSE LET db2 == UpdateRow(db, r.target, [coins |-> r.tprof.coins - robAmount(r)]) IN
         IF r.thrown
         THEN OutDelta(db2, [r EXCEPT !.pc = "done", !.reply = "error"], r.target, -robAmount(r))
         ELSE OutDelta(db2, [r EXCEPT !.pc = "log"], r.target, -robAmount(r))

robLog(db, r) ==
    logTransaction(db, r,
        Transaction(r.user, "rob",
                    IF robSuccess(r, db.settings) THEN robAmount(r)
                    ELSE -robPenalty(r, db.settings),
                    r.target, "null",
                    [success |-> robSuccess(r, db.settings),
                     defense |-> robDefense(r.tinv)]))

\* after the log the embed is sent (editReply); when that throws, the catch
\* block runs and setCooldown is not reached
robAfterLog(db, r) ==
    IF "reply" \in r.fail
    THEN Reply(db, r, "error")
    ELSE Goto(db, r, "set_cd")

robStep(db, t, r) ==
    CASE r.pc = "cd_select"   ->
            IF r.user = r.target
            THEN Reply(db, r, "self")
            ELSE checkCooldownSelect(db, t, r, "rob", "gp_select")
      [] r.pc = "cd_delete"   -> checkCooldownDelete(db, r, "rob", "gp_select")
      [] r.pc = "gp_select"   -> getProfileSelect(db, t, r, r.user, "prof", "gp2_select", "gp_insert")
      [] r.pc = "gp_insert"   -> getProfileInsert(db, t, r, r.user, "prof", "gp2_select")
      [] r.pc = "gp2_select"  -> getProfileSelect(db, t, r, r.target, "tprof", "inv_select", "gp2_insert")
      [] r.pc = "gp2_insert"  -> getProfileInsert(db, t, r, r.target, "tprof", "inv_select")
      [] r.pc = "inv_select"  -> getInventory(db, t, r, r.user, "inv", "inv2_select")
      [] r.pc = "inv2_select" -> getInventory(db, t, r, r.target, "tinv", "upd1")
      [] r.pc = "upd1"        -> robResolve(db, r)
      [] r.pc = "upd2"        -> robTakeFromTarget(db, r)
      [] r.pc = "log"         -> robAfterLog(robLog(db, r), r)
      [] r.pc = "set_cd"      ->
            Reply(setCooldown(db, t, r, "rob", db.settings.rob_cooldown_hours), r,
                  IF robSuccess(r, db.settings) THEN "robbed" ELSE "caught")

----------------------------------------------------------------------------
(* inventory helpers of database.js *)

\* addToInventory, the select of the existing row
addToInventorySelect(db, r, next) ==
    Out(db, [r EXCEPT !.inv = InventoryRows(db, r.user, r.item), !.pc = next])

\* addToInventory, the write: update quantity of the row found, or insert a new
\* row; unique(user_id, item_id) rejects a second row and the error is not read
addToInventoryWrite(db, r) ==
    IF r.inv # {}
    THEN LET existing == CHOOSE x \in r.inv : TRUE IN
         [db EXCEPT !.inventory =
             {IF row.user = r.user /\ row.item = r.item
              THEN [row EXCEPT !.quantity = existing.quantity + 1]
              ELSE row : row \in db.inventory}]
    ELSE IF InventoryRows(db, r.user, r.item) # {}
    THEN db
    ELSE [db EXCEPT !.inventory =
             db.inventory \cup {[user |-> r.user, item |-> r.item, quantity |-> 1]}]

\* removeFromInventory, the select of the existing row (bound to tinv)
removeFromInventorySelect(db, r) == InventoryRows(db, r.user, r.item)

\* a removal that deletes only below quantity 1 and so writes quantity 0
removeFromInventoryWriteKeepsZero(db, r) ==
    LET existing == CHOOSE x \in r.tinv : TRUE IN
    IF existing.quantity < 1
    THEN [db EXCEPT !.inventory = db.inventory \ InventoryRows(db, r.user, r.item)]
    ELSE [db EXCEPT !.inventory =
             {IF row.user = r.user /\ row.item = r.item
              THEN [row EXCEPT !.quantity = existing.quantity - 1]
              ELSE row : row \in db.inventory}]

\* removeFromInventory, the write: delete the row when existing.quantity <= 1,
\* else set quantity to existing.quantity - 1
removeFromInventoryWrite(db, r) ==
    LET existing == CHOOSE x \in r.tinv : TRUE IN
    IF existing.quantity <= 1
    THEN [db EXCEPT !.inventory = db.inventory \ InventoryRows(db, r.user, r.item)]
    ELSE [db EXCEPT !.inventory =
             {IF row.user = r.user /\ row.item = r.item
              THEN [row EXCEPT !.quantity = existing.quantity - 1]
              ELSE row : row \in db.inventory}]

\* inventory.find(i => i.id === invItemId): the row of the button pressed
ownsItem(r) == \E row \in r.inv : row.item = r.item

Finish(db, r) == Reply(db, r, IF r.thrown THEN "error" ELSE "ok")

----------------------------------------------------------------------------
(* shop purchase button *)

\* a purchase that also refuses the buyer whose coins equal the price
buyPayStrict(db, r) ==
    IF r.prof.coins <= Catalog[r.item].price
    THEN Reply(db, r, "insufficient")
    ELSE IF updateFails(r, "upd1")
    THEN Out(db, [r EXCEPT !.pc = "ai_select", !.thrown = TRUE])
    ELSE OutDelta(UpdateRow(db, r.user, [coins |-> r.prof.coins - Catalog[r.item].price]),
                  [r EXCEPT !.pc = "ai_select"], r.user, -Catalog[r.item].price)

buyPay(db, r) ==
    IF r.prof.coins < Catalog[r.item].price
    THEN Reply(db, r, "insufficient")
    ELSE IF updateFails(r, "upd1")
    THEN Out(db, [r EXCEPT !.pc = "ai_select", !.thrown = TRUE])
    ELSE OutDelta(UpdateRow(db, r.user, [coins |-> r.prof.coins - Catalog[r.item].price]),
                  [r EXCEPT !.pc = "ai_select"], r.user, -Catalog[r.item].price)

buyLog(db, r) ==
    logTransaction(db, r,
        Transaction(r.user, "shop_buy", -Catalog[r.item].price, "null", r.item, <<>>))

buyStep(db, t, r) ==
    CASE r.pc = "gp_select" ->
            IF r.item \notin ItemIds
            THEN Reply(db, r, "item_not_found")
            ELSE getProfileSelect(db, t, r, r.user, "prof", "upd1", "gp_insert")
      [] r.pc = "gp_insert" -> getProfileInsert(db, t, r, r.user, "prof", "upd1")
      [] r.pc = "upd1"      -> buyPay(db, r)
      [] r.pc = "ai_select" -> addToInventorySelect(db, r, "ai_write")
      [] r.pc = "ai_write"  -> Goto(addToInventoryWrite(db, r), r, "log")
      [] r.pc = "log"       -> Finish(buyLog(db, r), r)

----------------------------------------------------------------------------
(* inventory sell button *)

\* a sell price rounded to the nearest coin
sellPriceRounded(item) == Floor(Catalog[item].price * SellPercent + 50, 100)

sellPrice(item) == Floor(Catalog[item].price * SellPercent, 100)

sellCredit(db, r) ==
    IF updateFails(r, "upd1")
    THEN Out(db, [r EXCEPT !.pc = "ri_select", !.thrown = TRUE])
    ELSE OutDelta(UpdateRow(db, r.user, [coins |-> r.prof.coins + sellPrice(r.item)]),
                  [r EXCEPT !.pc = "ri_select"], r.user, sellPrice(r.item))

\* removeFromInventory throws when the row is gone; the log insert of the same
\* Promise.all is already on its way
sellRemoveSelect(db, r) ==
    LET existing == removeFromInventorySelect(db, r) IN
    IF existing = {}
    THEN Out(db, [r EXCEPT !.pc = "log", !.thrown = TRUE])
    ELSE Out(db, [r EXCEPT !.pc = "ri_write", !.tinv = existing])

sellLog(db, r) ==
    logTransaction(db, r,
        Transaction(r.user, "shop_sell", sellPrice(r.item), "null", r.item, <<>>))

sellStep(db, t, r) ==
    CASE r.pc = "inv_select" -> getInventory(db, t, r, r.user, "inv", "gp_select")
      [] r.pc = "gp_select"  ->
            IF ~ownsItem(r)
            THEN Reply(db, r, "not_owned")
            ELSE getProfileSelect(db, t, r, r.user, "prof", "upd1", "gp_insert")
      [] r.pc = "gp_insert"  -> getProfileInsert(db, t, r, r.user, "prof", "upd1")
      [] r.pc = "upd1"       -> sellCredit(db, r)
      [] r.pc = "ri_select"  -> sellRemoveSelect(db, r)
      [] r.pc = "ri_write"   -> Goto(removeFromInventoryWrite(db, r), r, "log")
      [] r.pc = "log"        -> Finish(sellLog(db, r), r)

----------------------------------------------------------------------------
(* inventory use button *)

useEffect(r) == Catalog[r.item].effect

\* the switch on item.effect.effect: which consumables write the profile
useWritesProfile(r) == useEffect(r).effect \in {"xp_grant", "daily_boost"}

useUpdatesStaleLevel(r) ==
    IF useEffect(r).effect = "xp_grant"
    THEN [xp |-> r.prof.xp + useEffect(r).value, level |-> r.prof.level]
    ELSE [coins |-> r.prof.coins + DailyBoostCoins]

useUpdates(r) ==
    IF useEffect(r).effect = "xp_grant"
    THEN [xp |-> r.prof.xp + useEffect(r).value,
          level |-> Level(r.prof.xp + useEffect(r).value)]
    ELSE [coins |-> r.prof.coins + DailyBoostCoins]

useApply(db, r) ==
    IF updateFails(r, "upd1")
    THEN Reply(db, r, "error")
    ELSE OutDelta(UpdateRow(db, r.user, useUpdates(r)),
                  [r EXCEPT !.pc = "ri_select"], r.user,
                  IF useEffect(r).effect = "daily_boost" THEN DailyBoostCoins ELSE 0)

useRemoveSelect(db, r) ==
    LET existing == removeFromInventorySelect(db, r) IN
    IF existing = {}
    THEN Reply(db, r, "error")
    ELSE Out(db, [r EXCEPT !.pc = "ri_write", !.tinv = existing])

useLog(db, r) ==
    logTransaction(db, r,
        Transaction(r.user, "use_item", 0, "null", r.item, [effect |-> useEffect(r)]))

\* every consumable goes through the profile update
useAfterProfileAlways(r) == "upd1"

useAfterProfile(r) == IF useWritesProfile(r) THEN "upd1" ELSE "ri_select"

useStep(db, t, r) ==
    CASE r.pc = "inv_select" -> getInventory(db, t, r, r.user, "inv", "gp_select")
      [] r.pc = "gp_select"  ->
            IF ~ownsItem(r)
            THEN Reply(db, r, "not_owned")
            ELSE IF useEffect(r).type # "consumable"
            THEN Reply(db, r, "not_usable")
            ELSE getProfileSelect(db, t, r, r.user, "prof", useAfterProfile(r), "gp_insert")
      [] r.pc = "gp_insert"  -> getProfileInsert(db, t, r, r.user, "prof", useAfterProfile(r))
      [] r.pc = "upd1"       -> useApply(db, r)
      [] r.pc = "ri_select"  -> useRemoveSelect(db, r)
      [] r.pc = "ri_write"   -> Goto(removeFromInventoryWrite(db, r), r, "log")
      [] r.pc = "log"        -> Reply(useLog(db, r), r, "ok")

----------------------------------------------------------------------------
(* One step of a handler, and a handler run to its end without interleaving *)

Step(db, t, r) ==
    CASE r.cmd = "daily" -> dailyStep(db, t, r)
      [] r.cmd = "work"  -> workStep(db, t, r)
      [] r.cmd = "pay"   -> payStep(db, t, r)
      [] r.cmd = "rob"   -> robStep(db, t, r)
      [] r.cmd = "buy"   -> buyStep(db, t, r)
      [] r.cmd = "sell"  -> sellStep(db, t, r)
      [] r.cmd = "use"   -> useStep(db, t, r)

RECURSIVE Run(_, _, _)
Run(db, t, r) ==
    IF r.pc = "done"
    THEN [db |-> db, r |-> r]
    ELSE LET o == Step(db, t, r) IN Run(o.db, t, o.r)

FirstPc(cmd) ==
    CASE cmd \in {"daily", "work", "rob"} -> "cd_select"
      [] cmd \in {"pay", "buy"}           -> "gp_select"
      [] cmd \in {"sell", "use"}          -> "inv_select"

----------------------------------------------------------------------------
(* States the store can be in when a run starts *)

DefaultSettings ==
    [daily_amount |-> 500, daily_cooldown_hours |-> 24,
     work_min_amount |-> 100, work_max_amount |-> 500, work_cooldown_hours |-> 4,
     rob_success_rate |-> 40, rob_cooldown_hours |-> 12, rob_penalty_percent |-> 20]

\* an admin-configured row: every failed rob costs the whole balance
HarshSettings == [DefaultSettings EXCEPT !.rob_penalty_percent = 100]

\* 99 dailies and a few works, pays and robs after creation
Veteran ==
    [coins |-> 2600, xp |-> 995, level |-> 1, daily_streak |-> 3,
     last_daily |-> T0 - 24, last_work |-> T0 - 5, rob_attempts |-> 1]

\* an account that paid most of its coins away and worked an hour ago
Poor == [NewProfile EXCEPT !.coins = 90, !.xp = 40, !.last_work = T0 - 1]

\* an account robbed down below the robbery threshold, itself a robber
Modest == [NewProfile EXCEPT !.coins = 450, !.xp = 1990, !.level = 2, !.rob_attempts = 2]

Row(u, i, q) == [user |-> u, item |-> i, quantity |-> q]

Cd(u, c, e) == [user |-> u, command |-> c, expires_at |-> e]

World(p, i, c, s) == [profiles |-> p, inventory |-> i, cooldowns |-> c, settings |-> s]

Worlds ==
    { World(<<>>, {}, {}, DefaultSettings),
      World(("u1" :> Veteran) @@ ("u2" :> NewProfile),
            {Row("u1", "potion", 1), Row("u1", "pickaxe", 1), Row("u2", "sword", 2)},
            {Cd("u1", "daily", T0), Cd("u1", "work", T0 - 1)},
            DefaultSettings),
      World(("u1" :> Veteran) @@ ("u2" :> Modest),
            {Row("u1", "coupon", 1), Row("u2", "excal", 1)},
            {Cd("u1", "rob", T0), Cd("u2", "rob", T0)},
            HarshSettings),
      World(("u1" :> Poor),
            {Row("u1", "drink", 2), Row("u1", "watch", 1), Row("u1", "drill", 1)},
            {Cd("u1", "work", T0 + 2)},
            DefaultSettings) }

DB ==
    [profiles |-> profiles, inventory |-> inventory, cooldowns |-> cooldowns,
     transactions |-> transactions, settings |-> settings]

Commit(db) ==
    /\ profiles' = db.profiles
    /\ inventory' = db.inventory
    /\ cooldowns' = db.cooldowns
    /\ transactions' = db.transactions
    /\ settings' = db.settings

\* the balance a reader of the account observes (getProfile creates it lazily)
Balance(p, u) == IF u \in DOMAIN p THEN p[u].coins ELSE StartCoins

NoRob == [done |-> FALSE]

InitStore ==
    /\ \E w \in Worlds :
          /\ profiles = w.profiles
          /\ inventory = w.inventory
          /\ cooldowns = w.cooldowns
          /\ settings = w.settings
    /\ transactions = <<>>
    /\ now = T0
    /\ started = 0
    /\ credited = [u \in Users |-> Balance(profiles, u)]
    /\ robIn = NoRob
    /\ robOut = NoRob

Init ==
    /\ InitStore
    /\ reqs = [s \in Slots |-> IdleReq]

----------------------------------------------------------------------------
(* Inputs of the interactions *)

Draws == {0, 500, 999}         \* Math.random(), thousandths
PayAmounts == {1, 1000, 3000}  \* the amount option (setMinValue(1))
BuyItems == ItemIds \cup {"ghost"}

\* the narrower menus of the interleaved runs
RaceDraws == {0, 999}
RacePayAmounts == {1000, 3000}
RaceItems == {"potion", "sword"}

----------------------------------------------------------------------------
(* Spec: interactions dispatched concurrently, handlers interleaved at their *)
(* store round trips                                                         *)

Free(s) == reqs[s].pc \in {"idle", "done"}

\* slot s may take the next interaction (free slots are interchangeable)
CanDispatch(s) ==
    /\ Free(s)
    /\ \A s2 \in Slots : Free(s2) => s <= s2
    /\ started < MaxOps

Request(cmd, u, v, amount, item, rnd1, rnd2) ==
    NewReq(cmd, u, v, amount, item, rnd1, rnd2, {}, FirstPc(cmd))

Running(s, cmd) == ~Free(s) /\ reqs[s].cmd = cmd

SubmitDaily == \E s \in Slots, u \in Users :
    /\ CanDispatch(s)
    /\ reqs' = [reqs EXCEPT ![s] = Request("daily", u, u, 0, "", 0, 0)]
    /\ started' = started + 1
    /\ UNCHANGED <<profiles, inventory, cooldowns, transactions, settings, now,
                   credited, robIn, robOut>>

SubmitWork == \E s \in Slots, u \in Users :
    /\ CanDispatch(s)
    /\ reqs' = [reqs EXCEPT ![s] = Request("work", u, u, 0, "", 500, 0)]
    /\ started' = started + 1
    /\ UNCHANGED <<profiles, inventory, cooldowns, transactions, settings, now,
                   credited, robIn, robOut>>

SubmitPay == \E s \in Slots, u \in Users, v \in Users, amount \in RacePayAmounts :
    /\ CanDispatch(s)
    /\ reqs' = [reqs EXCEPT ![s] = Request("pay", u, v, amount, "", 0, 0)]
    /\ started' = started + 1
    /\ UNCHANGED <<profiles, inventory, cooldowns, transactions, settings, now,
                   credited, robIn, robOut>>

SubmitRob == \E s \in Slots, u \in Users, v \in Users, rnd1 \in RaceDraws :
    /\ CanDispatch(s)
    /\ reqs' = [reqs EXCEPT ![s] = Request("rob", u, v, 0, "", rnd1, 999)]
    /\ started' = started + 1
    /\ UNCHANGED <<profiles, inventory, cooldowns, transactions, settings, now,
                   credited, robIn, robOut>>

SubmitBuy == \E s \in Slots, u \in Users, item \in RaceItems \cup {"ghost"} :
    /\ CanDispatch(s)
    /\ reqs' = [reqs EXCEPT ![s] = Request("buy", u, u, 0, item, 0, 0)]
    /\ started' = started + 1
    /\ UNCHANGED <<profiles, inventory, cooldowns, transactions, settings, now,
                   credited, robIn, robOut>>

SubmitSell == \E s \in Slots, u \in Users, item \in RaceItems :
    /\ CanDispatch(s)
    /\ reqs' = [reqs EXCEPT ![s] = Request("sell", u, u, 0, item, 0, 0)]
    /\ started' = started + 1
    /\ UNCHANGED <<profiles, inventory, cooldowns, transactions, settings, now,
                   credited, robIn, robOut>>

SubmitUse == \E s \in Slots, u \in Users, item \in RaceItems :
    /\ CanDispatch(s)
    /\ reqs' = [reqs EXCEPT ![s] = Request("use", u, u, 0, item, 0, 0)]
    /\ started' = started + 1
    /\ UNCHANGED <<profiles, inventory, cooldowns, transactions, settings, now,
                   credited, robIn, robOut>>

\* the handler in slot s takes its next store round trip
Daily == \E s \in Slots :
    /\ Running(s, "daily")
    /\ Commit(dailyStep(DB, now, reqs[s]).db)
    /\ reqs' = [reqs EXCEPT ![s] = dailyStep(DB, now, reqs[s]).r]
    /\ credited' = [u \in Users |-> credited[u] + dailyStep(DB, now, reqs[s]).delta[u]]
    /\ UNCHANGED <<now, started, robIn, robOut>>

Work == \E s \in Slots :
    /\ Running(s, "work")
    /\ Commit(workStep(DB, now, reqs[s]).db)
    /\ reqs' = [reqs EXCEPT ![s] = workStep(DB, now, reqs[s]).r]
    /\ credited' = [u \in Users |-> credited[u] + workStep(DB, now, reqs[s]).delta[u]]
    /\ UNCHANGED <<now, started, robIn, robOut>>

Pay == \E s \in Slots :
    /\ Running(s, "pay")
    /\ Commit(payStep(DB, now, reqs[s]).db)
    /\ reqs' = [reqs EXCEPT ![s] = payStep(DB, now, reqs[s]).r]
    /\ credited' = [u \in Users |-> credited[u] + payStep(DB, now, reqs[s]).delta[u]]
    /\ UNCHANGED <<now, started, robIn, robOut>>

Rob == \E s \in Slots :
    /\ Running(s, "rob")
    /\ Commit(robStep(DB, now, reqs[s]).db)
    /\ reqs' = [reqs EXCEPT ![s] = robStep(DB, now, reqs[s]).r]
    /\ credited' = [u \in Users |-> credited[u] + robStep(DB, now, reqs[s]).delta[u]]
    /\ UNCHANGED <<now, started, robIn, robOut>>

Buy == \E s \in Slots :
    /\ Running(s, "buy")
    /\ Commit(buyStep(DB, now, reqs[s]).db)
    /\ reqs' = [reqs EXCEPT ![s] = buyStep(DB, now, reqs[s]).r]
    /\ credited' = [u \in Users |-> credited[u] + buyStep(DB, now, reqs[s]).delta[u]]
    /\ UNCHANGED <<now, started, robIn, robOut>>

Sell == \E s \in Slots :
    /\ Running(s, "sell")
    /\ Commit(sellStep(DB, now, reqs[s]).db)
    /\ reqs' = [reqs EXCEPT ![s] = sellStep(DB, now, reqs[s]).r]
    /\ credited' = [u \in Users |-> credited[u] + sellStep(DB, now, reqs[s]).delta[u]]
    /\ UNCHANGED <<now, started, robIn, robOut>>

Use == \E s \in Slots :
    /\ Running(s, "use")
    /\ Commit(useStep(DB, now, reqs[s]).db)
    /\ reqs' = [reqs EXCEPT ![s] = useStep(DB, now, reqs[s]).r]
    /\ credited' = [u \in Users |-> credited[u] + useStep(DB, now, reqs[s]).delta[u]]
    /\ UNCHANGED <<now, started, robIn, robOut>>

Tick ==
    /\ now < T0 + MaxTicks
    /\ now' = now + 1
    /\ UNCHANGED <<profiles, inventory, cooldowns, transactions, settings, reqs,
                   started, credited, robIn, robOut>>

Next ==
    \/ SubmitDaily \/ SubmitWork \/ SubmitPay \/ SubmitRob
    \/ SubmitBuy \/ SubmitSell \/ SubmitUse
    \/ Daily \/ Work \/ Pay \/ Rob \/ Buy \/ Sell \/ Use
    \/ Tick

Spec == Init /\ [][Next]_vars

----------------------------------------------------------------------------
(* SpecSeq: handlers run one after the other, each to its end, with store    *)
(* failures injected (fail names the round trips of the handler that fail)   *)

\* the failures of the two account writes of pay and rob
WriteFailModes == {{}, {"upd1"}, {"upd2"}}

FailModes == WriteFailModes \cup {{"cd_delete"}, {"reply"}}

\* the failure of the cleanup in checkCooldown
CheckFailModes == {{}, {"cd_delete"}}

SeqRequest(cmd, u, v, amount, item, rnd1, rnd2, fail) ==
    NewReq(cmd, u, v, amount, item, rnd1, rnd2, fail, FirstPc(cmd))

SeqDaily == \E u \in Users, fail \in CheckFailModes :
    /\ started < MaxSeqOps
    /\ Commit(Run(DB, now, SeqRequest("daily", u, u, 0, "", 0, 0, fail)).db)
    /\ reqs' = [reqs EXCEPT ![1] = Run(DB, now, SeqRequest("daily", u, u, 0, "", 0, 0, fail)).r]
    /\ started' = started + 1
    /\ UNCHANGED <<now, credited, robIn, robOut>>

SeqWork == \E u \in Users, rnd \in Draws, fail \in CheckFailModes :
    /\ started < MaxSeqOps
    /\ Commit(Run(DB, now, SeqRequest("work", u, u, 0, "", rnd, 0, fail)).db)
    /\ reqs' = [reqs EXCEPT ![1] = Run(DB, now, SeqRequest("work", u, u, 0, "", rnd, 0, fail)).r]
    /\ started' = started + 1
    /\ UNCHANGED <<now, credited, robIn, robOut>>

SeqPay == \E u \in Users, v \in Users, amount \in PayAmounts, fail \in WriteFailModes :
    /\ started < MaxSeqOps
    /\ Commit(Run(DB, now, SeqRequest("pay", u, v, amount, "", 0, 0, fail)).db)
    /\ reqs' = [reqs EXCEPT ![1] = Run(DB, now, SeqRequest("pay", u, v, amount, "", 0, 0, fail)).r]
    /\ started' = started + 1
    /\ UNCHANGED <<now, credited, robIn, robOut>>

SeqRob == \E u \in Users, v \in Users, rnd1 \in Draws, rnd2 \in Draws, fail \in FailModes :
    /\ started < MaxSeqOps
    /\ Commit(Run(DB, now, SeqRequest("rob", u, v, 0, "", rnd1, rnd2, fail)).db)
    /\ reqs' = [reqs EXCEPT ![1] = Run(DB, now, SeqRequest("rob", u, v, 0, "", rnd1, rnd2, fail)).r]
    /\ started' = started + 1
    /\ UNCHANGED <<now, credited, robIn, robOut>>

SeqBuy == \E u \in Users, item \in BuyItems :
    /\ started < MaxSeqOps
    /\ Commit(Run(DB, now, SeqRequest("buy", u, u, 0, item, 0, 0, {})).db)
    /\ reqs' = [reqs EXCEPT ![1] = Run(DB, now, SeqRequest("buy", u, u, 0, item, 0, 0, {})).r]
    /\ started' = started + 1
    /\ UNCHANGED <<now, credited, robIn, robOut>>

SeqSell == \E u \in Users, item \in ItemIds :
    /\ started < MaxSeqOps
    /\ Commit(Run(DB, now, SeqRequest("sell", u, u, 0, item, 0, 0, {})).db)
    /\ reqs' = [reqs EXCEPT ![1] = Run(DB, now, SeqRequest("sell", u, u, 0, item, 0, 0, {})).r]
    /\ started' = started + 1
    /\ UNCHANGED <<now, credited, robIn, robOut>>

SeqUse == \E u \in Users, item \in ItemIds :
    /\ started < MaxSeqOps
    /\ Commit(Run(DB, now, SeqRequest("use", u, u, 0, item, 0, 0, {})).db)
    /\ reqs' = [reqs EXCEPT ![1] = Run(DB, now, SeqRequest("use", u, u, 0, item, 0, 0, {})).r]
    /\ started' = started + 1
    /\ UNCHANGED <<now, credited, robIn, robOut>>

NextSeq ==
    \/ SeqDaily \/ SeqWork \/ SeqPay \/ SeqRob \/ SeqBuy \/ SeqSell \/ SeqUse
    \/ Tick

SpecSeq == Init /\ [][NextSeq]_vars

\* the handler that ran in the step, in SpecSeq
Ran(cmd) == started' = started + 1 /\ reqs'[1].cmd = cmd

----------------------------------------------------------------------------
(* Properties of the interleaved handlers (Spec) *)

Succeeded(r) == r.pc = "done" /\ r.reply \in {"ok", "robbed", "caught"}

\* C1: every account's level equals floor(xp / 1000) + 1 in every reachable
\* state, whatever handlers have run and however they interleave
C1_LevelFollowsXp ==
    \A u \in DOMAIN profiles :
        profiles[u].level = (profiles[u].xp \div 1000) + 1

\* a daily claim has taken an account from level 1 across the 1000 xp line
C1_Witness ==
    \E s \in Slots :
        /\ reqs[s].cmd = "daily"
        /\ Succeeded(reqs[s])
        /\ reqs[s].prof.level = 1
        /\ profiles[reqs[s].user].xp >= 1000
        /\ profiles[reqs[s].user].level = 2

\* C2: no account's coin balance is ever negative
C2_CoinsNonNegative ==
    \A u \in DOMAIN profiles : profiles[u].coins >= 0

\* a payment, a purchase or a robbery penalty has emptied an account exactly
C2_Witness ==
    \E s \in Slots :
        /\ reqs[s].cmd \in {"pay", "buy", "rob"}
        /\ Succeeded(reqs[s])
        /\ reqs[s].prof.coins > 0
        /\ profiles[reqs[s].user].coins = 0

\* the handler in slot s is a work of user u that passed the cooldown check
\* with no cooldown in force and has written its reward
WorkRewarded(s, u) ==
    /\ reqs[s].cmd = "work"
    /\ reqs[s].user = u
    /\ reqs[s].cd \in {"none", "expired"}
    /\ reqs[s].pc \in {"set_cd", "log"} \/ Succeeded(reqs[s])

\* C3: two works of one user that arrive overlapped in time, with no cooldown
\* in force, never both pay out: at most one of them gets past the check
C3_OneWorkPerWindow ==
    \A u \in Users :
        ~ (WorkRewarded(1, u) /\ WorkRewarded(2, u))

\* C4: once the interleaved handlers have all completed successfully, every
\* account's balance is its starting balance plus the sum of their deltas
C4_NoLostUpdate ==
    (\A s \in Slots : Succeeded(reqs[s]))
        => \A u \in DOMAIN profiles : profiles[u].coins = credited[u]

----------------------------------------------------------------------------
(* Properties of the handlers run one at a time (SpecSeq) *)

\* every account's observable balance is the same before and after the step
BalancesKept == \A u \in Users : Balance(profiles', u) = Balance(profiles, u)

\* C5: a pay in which one of the two account writes fails leaves, once the
\* handler has finished, both balances as they were before the pay
C5_PayAllOrNothing ==
    [][ ( /\ Ran("pay")
          /\ reqs'[1].reply = "error"
          /\ reqs'[1].fail \cap {"upd1", "upd2"} # {} )
        => BalancesKept ]_vars

\* the sender and the amount make the pay one the handler must reject
PayMustReject(u, v, amount) == u = v \/ amount > Balance(profiles, u)

\* C6: a pay to oneself, or of more than the sender holds, is rejected; both
\* balances are unchanged and no audit record is appended
C6_RejectedPayChangesNothing ==
    [][ ( /\ Ran("pay")
          /\ PayMustReject(reqs'[1].user, reqs'[1].target, reqs'[1].amount) )
        => /\ reqs'[1].reply \in {"self", "insufficient"}
           /\ BalancesKept
           /\ transactions' = transactions ]_vars

\* a pay of more than the sender holds, or a pay to oneself, has been rejected
C6_Witness ==
    /\ reqs[1].cmd = "pay"
    /\ reqs[1].pc = "done"
    /\ \/ reqs[1].reply = "insufficient" /\ reqs[1].amount > reqs[1].prof.coins
       \/ reqs[1].reply = "self" /\ reqs[1].user = reqs[1].target

PayRecords(S, R, a) ==
    { [user |-> S, type |-> "pay", amount |-> <<0 - a>>, target |-> R,
       item |-> "null", meta |-> <<>>],
      [user |-> R, type |-> "pay", amount |-> <<a>>, target |-> S,
       item |-> "null", meta |-> <<>>] }

PayEffect(S, R, a) ==
    /\ reqs'[1].reply = "ok"
    /\ profiles'[S].coins = Balance(profiles, S) - a
    /\ profiles'[R].coins = Balance(profiles, R) + a
    /\ Balance(profiles', S) + Balance(profiles', R)
          = Balance(profiles, S) + Balance(profiles, R)
    /\ \A u \in DOMAIN profiles : u \notin {S, R} => profiles'[u] = profiles[u]
    /\ Len(transactions') = Len(transactions) + 2
    /\ SubSeq(transactions', 1, Len(transactions)) = transactions
    /\ { transactions'[Len(transactions) + 1], transactions'[Len(transactions) + 2] }
          = PayRecords(S, R, a)
    /\ cooldowns' = cooldowns

RobBelowThreshold(u, v) ==
    \/ Balance(profiles, v) < RobMinTarget
    \/ Balance(profiles, u) < RobMinRobber

RobRefusals == {"self", "cooldown", "target_poor", "robber_poor"}

\* what a refused robbery may still do: create the missing account of a party
\* with the starting values, and delete the robber's expired rob cooldown
RobLazyOnly(u, v) ==
    /\ \A w \in DOMAIN profiles : w \in DOMAIN profiles' /\ profiles'[w] = profiles[w]
    /\ \A w \in DOMAIN profiles' \ DOMAIN profiles :
          w \in {u, v} /\ profiles'[w] = NewProfile
    /\ inventory' = inventory
    /\ cooldowns' \subseteq cooldowns
    /\ \A c \in cooldowns \ cooldowns' :
          c.user = u /\ c.command = "rob" /\ c.expires_at <= now
    /\ transactions' = transactions

\* C8 as stated: a rob below either threshold is rejected with no state
\* mutation at all
C8_RejectedRobChangesNothing ==
    [][ ( /\ Ran("rob")
          /\ RobBelowThreshold(reqs'[1].user, reqs'[1].target) )
        => /\ reqs'[1].reply \in RobRefusals
           /\ UNCHANGED <<profiles, inventory, cooldowns, transactions>> ]_vars

\* C8 amended: a rob below either threshold is rejected; it changes no
\* existing account, no inventory entry and appends no audit record, and arms
\* or changes no cooldown; it may create a party's missing account and delete
\* the robber's expired rob cooldown entry
C8_RejectedRobLazyOnly ==
    [][ ( /\ Ran("rob")
          /\ RobBelowThreshold(reqs'[1].user, reqs'[1].target) )
        => /\ reqs'[1].reply \in RobRefusals
           /\ RobLazyOnly(reqs'[1].user, reqs'[1].target) ]_vars

\* a rob has been refused for a threshold after its cooldown check removed an
\* expired entry
C8_Witness ==
    /\ reqs[1].cmd = "rob"
    /\ reqs[1].pc = "done"
    /\ reqs[1].reply \in {"target_poor", "robber_poor"}
    /\ reqs[1].cd = "expired"
    /\ \A c \in cooldowns : ~ (c.user = reqs[1].user /\ c.command = "rob")

----------------------------------------------------------------------------
(* SpecRob: one robbery resolved twice from the same accounts, settings,     *)
(* target inventory and draws, with two different robber inventories         *)

BaseRates == {0, 5, 10, 40, 85, 100}        \* rob_success_rate, hundredths
TargetInventories == {{}, {"sword"}, {"excal"}, {"sword", "excal"}, {"pickaxe", "medal"}}
RobberInventories == {{}, {"sword"}, {"excal", "watch"}}
RateDraws == {0, 99, 100, 299, 300, 399, 400, 999}

RobInputs ==
    [base : BaseRates, tinv : TargetInventories,
     invA : RobberInventories, invB : RobberInventories,
     rnd1 : RateDraws, rnd2 : RaceDraws]

RobSettings(in) == [DefaultSettings EXCEPT !.rob_success_rate = in.base]

RobRows(u, items) == { Row(u, i, 1) : i \in items }

\* the store before the robbery of u2 by u1
RobDB(in, robberItems) ==
    [profiles |-> ("u1" :> Veteran) @@ ("u2" :> NewProfile),
     inventory |-> RobRows("u1", robberItems) \cup RobRows("u2", in.tinv),
     cooldowns |-> {},
     transactions |-> <<>>,
     settings |-> RobSettings(in)]

RobRun(in, robberItems) ==
    Run(RobDB(in, robberItems), T0,
        SeqRequest("rob", "u1", "u2", 0, "", in.rnd1, in.rnd2, {}))

InitRob ==
    /\ profiles = <<>>
    /\ inventory = {}
    /\ cooldowns = {}
    /\ transactions = <<>>
    /\ settings = DefaultSettings
    /\ now = T0
    /\ started = 0
    /\ credited = [u \in Users |-> 0]
    /\ reqs = [s \in Slots |-> IdleReq]
    /\ robIn \in RobInputs
    /\ robOut = NoRob

ResolveRob ==
    /\ ~ robOut.done
    /\ robOut' = [done |-> TRUE,
                  rate |-> robSuccessRate(RobSettings(robIn),
                                          InventoryOf(RobDB(robIn, robIn.invA), "u1"),
                                          InventoryOf(RobDB(robIn, robIn.invA), "u2")),
                  a |-> RobRun(robIn, robIn.invA),
                  b |-> RobRun(robIn, robIn.invB)]
    /\ UNCHANGED <<profiles, inventory, cooldowns, transactions, settings, now,
                   reqs, started, credited, robIn>>

NextRob == ResolveRob

SpecRob == InitRob /\ [][NextRob]_vars

\* the largest rob_defense value among the items, 0 if there is none
LargestDefense(items) ==
    LET values == { Catalog[i].effect.value :
                      i \in { j \in items : Catalog[j].effect.type = "rob_defense" } }
    IN  IF values = {} THEN 0 ELSE CHOOSE v \in values : \A w \in values : w <= v

RateIsFlooredDifference ==
    /\ robOut.rate = Max(10, robIn.base - LargestDefense(robIn.tinv))
    /\ (robOut.a.r.reply = "robbed")
          <=> (robIn.rnd1 < 10 * Max(10, robIn.base - LargestDefense(robIn.tinv)))
    /\ robOut.a.r.reply \in {"robbed", "caught"}
    /\ robOut.rate >= 10

\* C9 as stated: the probability rob uses is max(0.10, base - d), d the
\* largest rob_defense in the target's inventory; it is never below 0.10 and
\* never above the base rate
C9_RateWithinBase ==
    robOut.done => RateIsFlooredDifference /\ robOut.rate <= robIn.base

\* C9 amended: the probability rob uses is max(0.10, base - d); it is never
\* below 0.10 and never above max(0.10, base), so it exceeds the base rate
\* only when the base rate is itself below 0.10
C9_RateFloored ==
    robOut.done =>
        /\ RateIsFlooredDifference
        /\ robOut.rate <= Max(10, robIn.base)
        /\ (robOut.rate > robIn.base) => (robIn.base < 10)

\* a defended target has been robbed at the floor rate, above base - d
C9_Witness ==
    /\ robOut.done
    /\ LargestDefense(robIn.tinv) > 0
    /\ robIn.base - LargestDefense(robIn.tinv) < 10
    /\ robIn.base >= 10
    /\ robOut.rate = 10
    /\ robOut.a.r.reply = "robbed"

\* the store of a run with the robber's own inventory entries left out
RobVisible(out) ==
    [profiles |-> out.db.profiles,
     inventory |-> { row \in out.db.inventory : row.user # "u1" },
     cooldowns |-> out.db.cooldowns,
     transactions |-> out.db.transactions,
     reply |-> out.r.reply]

----------------------------------------------------------------------------
(* Robbery outcomes, run one at a time (SpecSeq) *)

\* the last audit record
LastRecord(txs) == txs[Len(txs)]

\* the step appends exactly one audit record
OneRecordAppended ==
    /\ Len(transactions') = Len(transactions) + 1
    /\ SubSeq(transactions', 1, Len(transactions)) = transactions

\* the robbery of v by u succeeded with the share draw rnd2 (thousandths)
RobSuccessEffect(u, v, rnd2) ==
    LET T == Balance(profiles, v)
        amount == profiles'[u].coins - Balance(profiles, u)
    IN  /\ amount = (T * (1000 + 2 * rnd2)) \div 10000
        /\ amount >= (T * 10) \div 100
        /\ amount <= (T * 30) \div 100
        /\ profiles'[v].coins = T - amount
        /\ profiles'[v].coins >= 0
        /\ Balance(profiles', u) + Balance(profiles', v)
              = Balance(profiles, u) + Balance(profiles, v)
        /\ profiles'[u].rob_attempts = reqs'[1].prof.rob_attempts + 1
        /\ OneRecordAppended
        /\ LastRecord(transactions').user = u
        /\ LastRecord(transactions').type = "rob"
        /\ LastRecord(transactions').target = v
        /\ LastRecord(transactions').amount = OrNullAmount(amount)
        /\ LastRecord(transactions').meta.success = TRUE

RobFailureEffect(u, v) ==
    LET C == Balance(profiles, u)
        penalty == (C * settings.rob_penalty_percent) \div 100
    IN  /\ profiles'[u].coins = C - penalty
        /\ profiles'[u].rob_attempts = reqs'[1].prof.rob_attempts + 1
        /\ profiles'[u].xp = reqs'[1].prof.xp
        /\ profiles'[u].level = reqs'[1].prof.level
        /\ profiles'[v] = reqs'[1].tprof
        /\ v \in DOMAIN profiles => profiles'[v] = profiles[v]
        /\ inventory' = inventory

\* C12: a failed rob takes exactly floor(robber.coins * rob_penalty_percent)
\* from the robber, adds one to rob_attempts, and leaves the target's account
\* and both inventories unchanged
C12_RobFailureEffect ==
    [][ ( /\ Ran("rob")
          /\ reqs'[1].fail = {}
          /\ reqs'[1].reply = "caught" )
        => RobFailureEffect(reqs'[1].user, reqs'[1].target) ]_vars

\* a robber holding items has been caught and fined, the target holding items
C12_Witness ==
    /\ reqs[1].cmd = "rob"
    /\ reqs[1].fail = {}
    /\ reqs[1].reply = "caught"
    /\ profiles[reqs[1].user].coins < reqs[1].prof.coins
    /\ InventoryOf(DB, reqs[1].target) # {}

\* the robbery that ran in the step wrote its outcome to the robber's account
\* and met no failure other than that of the reply
RobResolved ==
    /\ Ran("rob")
    /\ reqs'[1].fail \subseteq {"reply"}
    /\ reqs'[1].reply \in {"robbed", "caught", "error"}

\* C13: every rob that has committed its success or failure write arms the
\* robber's rob cooldown for rob_cooldown_hours by the time its handler ends,
\* whatever the outcome and also when the reply could not be delivered
C13_RobAlwaysArms ==
    [][ RobResolved
        => [user |-> reqs'[1].user, command |-> "rob",
            expires_at |-> now + settings.rob_cooldown_hours] \in cooldowns' ]_vars

----------------------------------------------------------------------------
(* SpecDaily: daily claims of accounts with every streak up to MaxStreak and *)
(* last claims from 23 to 72 hours back, each with the cooldown entry that   *)
(* last claim armed                                                          *)

DailyGaps == {23, 24, 25, 47, 48, 49, 72}

\* an account k + 1 claims old whose last claim was gap hours ago
Claimant(gap, k) ==
    [NewProfile EXCEPT !.xp = DailyXp * (k + 1), !.daily_streak = k,
                       !.last_daily = T0 - gap]

InitDaily ==
    /\ \/ /\ profiles = ("u1" :> NewProfile)
          /\ cooldowns = {}
       \/ \E gap \in DailyGaps, k \in 0..MaxStreak :
             /\ profiles = ("u1" :> Claimant(gap, k))
             /\ cooldowns = {Cd("u1", "daily",
                                T0 - gap + DefaultSettings.daily_cooldown_hours)}
    /\ inventory = {}
    /\ transactions = <<>>
    /\ settings = DefaultSettings
    /\ now = T0
    /\ started = 0
    /\ credited = [u \in Users |-> Balance(profiles, u)]
    /\ reqs = [s \in Slots |-> IdleReq]
    /\ robIn = NoRob
    /\ robOut = NoRob

NextDaily == SeqDaily \/ Tick

SpecDaily == InitDaily /\ [][NextDaily]_vars

\* the account of u as a handler reads it before the step
Before(u) == IF u \in DOMAIN profiles THEN profiles[u] ELSE NewProfile

\* a daily claim of the step's user went through
Claimed == Ran("daily") /\ reqs'[1].reply = "ok"

StreakRule(old, new, t) ==
    /\ old.last_daily = NoTime => new.daily_streak = 0
    /\ (old.last_daily # NoTime /\ t - old.last_daily >= 24 /\ t - old.last_daily <= 48)
          => new.daily_streak = old.daily_streak + 1
    /\ (old.last_daily # NoTime /\ t - old.last_daily > 48) => new.daily_streak = 0

\* C14: a daily claim that passes the cooldown gate sets the streak to 0 when
\* there is no prior claim, to the previous streak + 1 when the last claim is
\* 24 to 48 hours back (both inclusive), and to 0 when it is more than 48
C14_StreakRule ==
    [][ Claimed
        => StreakRule(Before(reqs'[1].user), profiles'[reqs'[1].user], now) ]_vars

\* a claim made exactly 48 hours after the last one has continued the streak
C14_Witness ==
    /\ reqs[1].cmd = "daily"
    /\ reqs[1].reply = "ok"
    /\ reqs[1].prof.last_daily # NoTime
    /\ reqs[1].at - reqs[1].prof.last_daily = 48
    /\ reqs[1].prof.daily_streak >= 1
    /\ profiles[reqs[1].user].daily_streak = reqs[1].prof.daily_streak + 1

\* the bonus of a streak, as the rule states it
StreakBonus(k) == IF k * 50 <= 500 THEN k * 50 ELSE 500

RewardRule(old, new) ==
    /\ new.coins = old.coins + settings.daily_amount + StreakBonus(new.daily_streak)
    /\ new.xp = old.xp + 10
    /\ new.daily_streak >= 10 => new.coins = old.coins + settings.daily_amount + 500
    /\ \A k \in 0..new.daily_streak :
          settings.daily_amount + StreakBonus(k) <= new.coins - old.coins

\* C15: a successful daily claim adds daily_amount + min(newStreak * 50, 500)
\* coins and 10 xp; the reward never decreases as the streak grows and the
\* bonus is 500 from streak 10 on
C15_DailyReward ==
    [][ Claimed
        => RewardRule(Before(reqs'[1].user), profiles'[reqs'[1].user]) ]_vars

\* a claim has taken a streak beyond 10 and paid the capped bonus
C15_Witness ==
    /\ reqs[1].cmd = "daily"
    /\ reqs[1].reply = "ok"
    /\ profiles[reqs[1].user].daily_streak > 10
    /\ profiles[reqs[1].user].coins = reqs[1].prof.coins + settings.daily_amount + 500

----------------------------------------------------------------------------
(* Cooldown gating of the handlers run one at a time (SpecSeq) *)

\* a daily, work or rob ran in the step and came to its cooldown check (a rob
\* aimed at the robber is turned away before the check)
Checked ==
    /\ started' = started + 1
    /\ reqs'[1].cmd \in CooldownCommands
    /\ ~ (reqs'[1].cmd = "rob" /\ reqs'[1].user = reqs'[1].target)

\* u is on cooldown for command c
Gated(u, c) == \E e \in CooldownRows(DB, u, c) : e.expires_at > now

StoreUnchanged == UNCHANGED <<profiles, inventory, cooldowns, transactions, settings>>

WithoutFailure ==
    Run(DB, now, SeqRequest(reqs'[1].cmd, reqs'[1].user, reqs'[1].target,
                            reqs'[1].amount, reqs'[1].item,
                            reqs'[1].rnd1, reqs'[1].rnd2, {}))

\* C17: a cooldown check on an entry that expires at or before the current
\* time reports not blocked and deletes the entry; on an entry that expires
\* later it reports blocked and keeps the entry; and when the deletion fails
\* the handler goes on as it would have
C17_StaleNeverBlocks ==
    [][ Checked =>
          \A row \in CooldownRows(DB, reqs'[1].user, reqs'[1].cmd) :
             /\ row.expires_at <= now
                   => /\ reqs'[1].cd = "expired"
                      /\ reqs'[1].reply # "cooldown"
                      /\ "cd_delete" \notin reqs'[1].fail => row \notin cooldowns'
             /\ row.expires_at > now
                   => /\ reqs'[1].cd = "active"
                      /\ reqs'[1].reply = "cooldown"
                      /\ cooldowns' = cooldowns
             /\ (row.expires_at <= now /\ reqs'[1].fail = {"cd_delete"})
                   => /\ reqs'[1].reply = WithoutFailure.r.reply
                      /\ profiles' = WithoutFailure.db.profiles
                      /\ transactions' = WithoutFailure.db.transactions ]_vars

\* a handler has paid out although the deletion of the expired entry failed
C17_Witness ==
    /\ reqs[1].cmd \in CooldownCommands
    /\ reqs[1].cd = "expired"
    /\ reqs[1].fail = {"cd_delete"}
    /\ Succeeded(reqs[1])
    /\ \E e \in CooldownRows(DB, reqs[1].user, reqs[1].cmd) : e.expires_at <= now

----------------------------------------------------------------------------
(* Arming under interleaving (Spec) *)

\* the handler in slot s makes its setCooldown round trip in the step
Arming(s) == reqs[s].pc = "set_cd" /\ reqs'[s].pc # "set_cd"

\* the hours the handler passes to setCooldown
ArmedHours(r) ==
    CASE r.cmd = "daily" -> settings.daily_cooldown_hours
      [] r.cmd = "work"  -> workCooldownHours(r.inv, settings)
      [] r.cmd = "rob"   -> settings.rob_cooldown_hours

\* C18: arming is an upsert: after a handler has armed (account, command) the
\* pair has exactly one entry and it carries the expiry of that arming, also
\* when the pair was armed already by an overlapping handler
C18_ArmReplaces ==
    [][ \A s \in Slots :
          Arming(s) =>
             {row \in cooldowns' : row.user = reqs[s].user /\ row.command = reqs[s].cmd}
                = {[user |-> reqs[s].user, command |-> reqs[s].cmd,
                    expires_at |-> now + ArmedHours(reqs[s])]} ]_vars

----------------------------------------------------------------------------
(* SpecWork: works of an account holding any set of tools and timepieces,    *)
(* under every configured work cooldown from 0 to 4 hours                    *)

WorkItems == {"pickaxe", "drill", "watch", "clock", "sundial", "medal"}
WorkQuantities == {1, 3}
WorkCooldowns == {0, 1, 2, 4}

InitWork ==
    /\ profiles = ("u1" :> NewProfile)
    /\ \E items \in SUBSET WorkItems, q \in WorkQuantities :
          inventory = { Row("u1", i, q) : i \in items }
    /\ cooldowns = {}
    /\ transactions = <<>>
    /\ \E h \in WorkCooldowns :
          settings = [DefaultSettings EXCEPT !.work_cooldown_hours = h]
    /\ now = T0
    /\ started = 0
    /\ credited = [u \in Users |-> Balance(profiles, u)]
    /\ reqs = [s \in Slots |-> IdleReq]
    /\ robIn = NoRob
    /\ robOut = NoRob

NextWork == SeqWork \/ Tick

SpecWork == InitWork /\ [][NextWork]_vars

\* the items u holds
Held(u) == { row.item : row \in InventoryOf(DB, u) }

\* the largest work_boost value among the items, 0 if there is none
LargestBoost(items) ==
    LET values == { Catalog[i].effect.value :
                      i \in { j \in items : Catalog[j].effect.type = "work_boost" } }
    IN  IF values = {} THEN 0 ELSE CHOOSE v \in values : \A w \in values : w <= v

\* the base amount of the draw rnd (thousandths)
ExpectedBase(rnd) ==
    (rnd * (settings.work_max_amount - settings.work_min_amount + 1)) \div 1000
        + settings.work_min_amount

\* a work of the step's user paid out, with no failure injected
Worked == Ran("work") /\ reqs'[1].reply = "ok" /\ reqs'[1].fail = {}

\* C19: the boost a work applies is the largest work_boost value among the
\* worker's inventory entries (0 if none), whatever the other entries and the
\* quantities: the payout is base + floor(base * largest boost)
C19_BoostIsMax ==
    [][ Worked
        => profiles'[reqs'[1].user].coins - Before(reqs'[1].user).coins
              = ExpectedBase(reqs'[1].rnd1)
                + (ExpectedBase(reqs'[1].rnd1) * LargestBoost(Held(reqs'[1].user))) \div 100
      ]_vars

\* a worker holding the 10% and the 25% tool has been paid base + 25%
C19_Witness ==
    /\ reqs[1].cmd = "work"
    /\ reqs[1].reply = "ok"
    /\ {"pickaxe", "drill"} \subseteq Held(reqs[1].user)
    /\ \E row \in InventoryOf(DB, reqs[1].user) : row.quantity > 1
    /\ LastRecord(transactions).meta.boost = (LastRecord(transactions).meta.base * 25) \div 100
    /\ LastRecord(transactions).meta.boost > 0
    /\ profiles[reqs[1].user].coins
          = reqs[1].prof.coins + LastRecord(transactions).meta.base
                               + LastRecord(transactions).meta.boost

\* the sum of the cooldown_reduction values for "work" among the items
RECURSIVE WorkReduction(_)
WorkReduction(items) ==
    IF items = {}
    THEN 0
    ELSE LET i == CHOOSE x \in items : TRUE
             e == Catalog[i].effect
         IN  WorkReduction(items \ {i})
                + (IF e.type = "cooldown_reduction" /\ e.command = "work"
                   THEN e.value ELSE 0)

\* C20: after a successful work the work cooldown is armed for
\* max(1, work_cooldown_hours - S) hours, S the sum of the worker's
\* cooldown_reduction values for "work", for every inventory (the empty one
\* included) and every configured work_cooldown_hours
C20_WorkCooldownClamped ==
    [][ Worked
        => [user |-> reqs'[1].user, command |-> "work",
            expires_at |-> now + Max(1, settings.work_cooldown_hours
                                          - WorkReduction(Held(reqs'[1].user)))]
              \in cooldowns' ]_vars

\* the total a work of the draw rnd pays to the holder of items
ExpectedTotal(rnd, items) ==
    ExpectedBase(rnd) + (ExpectedBase(rnd) * LargestBoost(items)) \div 100

\* C21: a successful work with base roll b and best boost v adds exactly
\* total = b + floor(b * v) coins and floor(total / 10) xp, sets last_work to
\* the time of the work and appends exactly one audit record, of type work and
\* amount total
C21_WorkEffect ==
    [][ Worked
        => LET u == reqs'[1].user
               total == ExpectedTotal(reqs'[1].rnd1, Held(u))
           IN  /\ profiles'[u].coins = Before(u).coins + total
               /\ profiles'[u].xp = Before(u).xp + total \div 10
               /\ profiles'[u].last_work = now
               /\ OneRecordAppended
               /\ LastRecord(transactions').user = u
               /\ LastRecord(transactions').type = "work"
               /\ LastRecord(transactions').amount = <<total>>
      ]_vars

\* a holder of the 25% tool has worked a base of 300 into 375 coins and 37 xp
C21_Witness ==
    /\ reqs[1].cmd = "work"
    /\ reqs[1].reply = "ok"
    /\ reqs[1].fail = {}
    /\ "drill" \in Held(reqs[1].user)
    /\ LastRecord(transactions).type = "work"
    /\ LastRecord(transactions).meta.base = 300
    /\ LastRecord(transactions).amount = <<375>>
    /\ profiles[reqs[1].user].coins = reqs[1].prof.coins + 375
    /\ profiles[reqs[1].user].xp = reqs[1].prof.xp + 37
    /\ profiles[reqs[1].user].last_work = reqs[1].at

----------------------------------------------------------------------------
(* Shop and inventory buttons *)

\* the quantity of item i that u holds in the inventory inv, 0 without an entry
Quantity(inv, u, i) ==
    LET rows == {row \in inv : row.user = u /\ row.item = i} IN
    IF rows = {} THEN 0 ELSE (CHOOSE row \in rows : TRUE).quantity

\* the inventory inv with the entry of (u, i) at quantity q, absent when q = 0
WithQuantity(inv, u, i, q) ==
    {row \in inv : ~(row.user = u /\ row.item = i)}
        \cup (IF q = 0 THEN {} ELSE {Row(u, i, q)})

\* the purchase of the step must go through: the item is in the catalog and
\* the buyer's coins cover its price
BuyMustSucceed ==
    /\ reqs'[1].item \in ItemIds
    /\ Balance(profiles, reqs'[1].user) >= Catalog[reqs'[1].item].price

\* C22: a buy succeeds exactly when the item exists and the buyer's coins are
\* at least its price; on success the buyer's coins fall by the price, the
\* quantity of the item in the buyer's inventory rises by one (an entry of
\* quantity 1 is created if there was none) and one shop_buy record of amount
\* -price referring to the item is appended; otherwise coins, inventory and
\* audit log are unchanged
C22_BuyEffect ==
    [][ Ran("buy")
        => LET u == reqs'[1].user
               i == reqs'[1].item
           IN  /\ reqs'[1].reply = "ok" <=> BuyMustSucceed
               /\ BuyMustSucceed
                    => /\ profiles'[u].coins = Balance(profiles, u) - Catalog[i].price
                       /\ \A v \in Users \ {u} : Balance(profiles', v) = Balance(profiles, v)
                       /\ inventory'
                             = WithQuantity(inventory, u, i, Quantity(inventory, u, i) + 1)
                       /\ OneRecordAppended
                       /\ LastRecord(transactions')
                             = Transaction(u, "shop_buy", 0 - Catalog[i].price, "null", i, <<>>)
               /\ ~BuyMustSucceed
                    => /\ BalancesKept
                       /\ inventory' = inventory
                       /\ transactions' = transactions
      ]_vars

\* a buyer whose coins equal the price has bought an item it held none of
C22_Witness ==
    /\ reqs[1].cmd = "buy"
    /\ reqs[1].reply = "ok"
    /\ reqs[1].prof.coins = Catalog[reqs[1].item].price
    /\ reqs[1].inv = {}
    /\ profiles[reqs[1].user].coins = 0
    /\ Quantity(inventory, reqs[1].user, reqs[1].item) = 1
    /\ LastRecord(transactions).type = "shop_buy"
    /\ LastRecord(transactions).item = reqs[1].item

\* 60% of the price of item i, rounded down
Refund(i) == (Catalog[i].price * 60) \div 100

\* a sell of the step went through
Sold == Ran("sell") /\ reqs'[1].reply = "ok"

\* a buy of the step went through
Bought == Ran("buy") /\ reqs'[1].reply = "ok"

\* the sell of the item just bought, run on the store the buy left
SellBack == Run(DB', now, SeqRequest("sell", reqs'[1].user, reqs'[1].user, 0,
                                     reqs'[1].item, 0, 0, {}))

\* C23: selling one unit credits floor(price * 0.6) coins and removes exactly
\* one unit; a buy followed at once by the sell of the same item restores the
\* inventory and leaves the account with exactly price - floor(price * 0.6)
\* fewer coins, a strict loss for every positive price
C23_SellEffect ==
    [][ /\ Sold
          => LET u == reqs'[1].user
                 i == reqs'[1].item
             IN  /\ profiles'[u].coins = Balance(profiles, u) + Refund(i)
                 /\ Quantity(inventory, u, i) >= 1
                 /\ inventory'
                       = WithQuantity(inventory, u, i, Quantity(inventory, u, i) - 1)
        /\ Bought
          => LET u == reqs'[1].user
                 i == reqs'[1].item
             IN  /\ SellBack.r.reply = "ok"
                 /\ SellBack.db.inventory = inventory
                 /\ SellBack.db.profiles[u].coins
                       = Balance(profiles, u) - (Catalog[i].price - Refund(i))
                 /\ Catalog[i].price > 0
                       => SellBack.db.profiles[u].coins < Balance(profiles, u)
      ]_vars

\* an item whose 60% is not a whole number was bought and sold back at once:
\* the audit log ends with the two records and the seller lost price - 178
C23_Witness ==
    /\ reqs[1].cmd = "sell"
    /\ reqs[1].reply = "ok"
    /\ reqs[1].item = "coupon"
    /\ Len(transactions) = 2
    /\ transactions[1] = Transaction(reqs[1].user, "shop_buy", 0 - 298, "null", "coupon", <<>>)
    /\ transactions[2] = Transaction(reqs[1].user, "shop_sell", 178, "null", "coupon", <<>>)
    /\ profiles[reqs[1].user].coins = reqs[1].prof.coins + 178
    /\ Quantity(inventory, reqs[1].user, "coupon") = Quantity(reqs[1].inv, reqs[1].user, "coupon") - 1

\* C24: in every reachable state, interleaved requests included, each
\* (account, item) pair has at most one inventory entry and every entry has a
\* quantity of at least 1 (an entry that would reach zero is deleted)
C24_InventoryWellFormed ==
    /\ \A row \in inventory : row.quantity >= 1
    /\ \A row \in inventory, other \in inventory :
          (row.user = other.user /\ row.item = other.item) => row = other

\* two purchases of the same item by the same buyer both found no entry, and
\* two removals both found the last unit: one entry, respectively none, is left
C24_Witness ==
    /\ \A s \in Slots : reqs[s].pc = "done" /\ reqs[s].user = reqs[1].user
                          /\ reqs[s].item = reqs[1].item
    /\ \/ /\ \A s \in Slots : reqs[s].cmd = "buy" /\ reqs[s].reply = "ok" /\ reqs[s].inv = {}
          /\ Quantity(inventory, reqs[1].user, reqs[1].item) = 1
       \/ /\ \A s \in Slots : reqs[s].cmd \in {"sell", "use"} /\ reqs[s].reply = "ok"
                                /\ \E row \in reqs[s].tinv : row.quantity = 1
          /\ Quantity(inventory, reqs[1].user, reqs[1].item) = 0

\* the use of the step must go through: the user holds the item and the item
\* is a consumable
UseMustSucceed ==
    /\ Quantity(inventory, reqs'[1].user, reqs'[1].item) >= 1
    /\ Catalog[reqs'[1].item].effect.type = "consumable"

\* C25: using a consumable the user holds always lowers its quantity by
\* exactly 1 (the entry is deleted at zero) and appends one use_item record
\* carrying the effect descriptor, whatever the sub-kind; xp_grant adds exactly
\* effect.value xp and stores the recomputed level, the coin grant adds a fixed
\* amount of coins; using an item that is absent or not a consumable changes
\* nothing
C25_UseEffect ==
    [][ Ran("use")
        => LET u == reqs'[1].user
               i == reqs'[1].item
               e == Catalog[i].effect
           IN  /\ reqs'[1].reply = "ok" <=> UseMustSucceed
               /\ UseMustSucceed
                    => /\ inventory'
                             = WithQuantity(inventory, u, i, Quantity(inventory, u, i) - 1)
                       /\ OneRecordAppended
                       /\ LastRecord(transactions')
                             = [user |-> u, type |-> "use_item", amount |-> <<>>,
                                target |-> "null", item |-> i, meta |-> [effect |-> e]]
                       /\ e.effect = "xp_grant"
                            => profiles'[u]
                                 = [Before(u) EXCEPT
                                      !.xp = Before(u).xp + e.value,
                                      !.level = (Before(u).xp + e.value) \div 1000 + 1]
                       /\ e.effect = "daily_boost"
                            => profiles'[u]
                                 = [Before(u) EXCEPT !.coins = Before(u).coins + 250]
                       /\ e.effect \notin {"xp_grant", "daily_boost"}
                            => profiles'[u] = Before(u)
                       /\ \A v \in Users \ {u} : Balance(profiles', v) = Balance(profiles, v)
                       /\ cooldowns' = cooldowns
               /\ ~UseMustSucceed => StoreUnchanged
      ]_vars

\* the last xp potion of an account 5 xp short of level 2 has been used: the
\* entry is gone, the account has 500 xp more and level 2
C25_Witness ==
    /\ reqs[1].cmd = "use"
    /\ reqs[1].reply = "ok"
    /\ Catalog[reqs[1].item].effect.effect = "xp_grant"
    /\ Quantity(reqs[1].inv, reqs[1].user, reqs[1].item) = 1
    /\ Quantity(inventory, reqs[1].user, reqs[1].item) = 0
    /\ reqs[1].prof.level = 1
    /\ profiles[reqs[1].user].xp = reqs[1].prof.xp + 500
    /\ profiles[reqs[1].user].level = 2
    /\ LastRecord(transactions).type = "use_item"
    /\ LastRecord(transactions).meta.effect = Catalog[reqs[1].item].effect

----------------------------------------------------------------------------
(* Handlers run one at a time while a store write may fail: the insert of
   logTransaction, whose error is printed and dropped, the first
   updateProfile of the handler, whose error is thrown, or the upsert of
   setCooldown, whose result is not read *)

StoreFailModes == {{}, {"log"}, {"upd1"}, {"set_cd"}}

AuditDaily == \E u \in Users, fail \in StoreFailModes :
    /\ started < MaxAuditOps
    /\ Commit(Run(DB, now, SeqRequest("daily", u, u, 0, "", 0, 0, fail)).db)
    /\ reqs' = [reqs EXCEPT ![1] = Run(DB, now, SeqRequest("daily", u, u, 0, "", 0, 0, fail)).r]
    /\ started' = started + 1
    /\ UNCHANGED <<now, credited, robIn, robOut>>

AuditWork == \E u \in Users, rnd \in Draws, fail \in StoreFailModes :
    /\ started < MaxAuditOps
    /\ Commit(Run(DB, now, SeqRequest("work", u, u, 0, "", rnd, 0, fail)).db)
    /\ reqs' = [reqs EXCEPT ![1] = Run(DB, now, SeqRequest("work", u, u, 0, "", rnd, 0, fail)).r]
    /\ started' = started + 1
    /\ UNCHANGED <<now, credited, robIn, robOut>>

AuditPay == \E u \in Users, v \in Users, amount \in PayAmounts, fail \in StoreFailModes :
    /\ started < MaxAuditOps
    /\ Commit(Run(DB, now, SeqRequest("pay", u, v, amount, "", 0, 0, fail)).db)
    /\ reqs' = [reqs EXCEPT ![1] = Run(DB, now, SeqRequest("pay", u, v, amount, "", 0, 0, fail)).r]
    /\ started' = started + 1
    /\ UNCHANGED <<now, credited, robIn, robOut>>

AuditRob == \E u \in Users, v \in Users, rnd1 \in Draws, rnd2 \in Draws, fail \in StoreFailModes :
    /\ started < MaxAuditOps
    /\ Commit(Run(DB, now, SeqRequest("rob", u, v, 0, "", rnd1, rnd2, fail)).db)
    /\ reqs' = [reqs EXCEPT ![1] = Run(DB, now, SeqRequest("rob", u, v, 0, "", rnd1, rnd2, fail)).r]
    /\ started' = started + 1
    /\ UNCHANGED <<now, credited, robIn, robOut>>

AuditBuy == \E u \in Users, item \in BuyItems, fail \in StoreFailModes :
    /\ started < MaxAuditOps
    /\ Commit(Run(DB, now, SeqRequest("buy", u, u, 0, item, 0, 0, fail)).db)
    /\ reqs' = [reqs EXCEPT ![1] = Run(DB, now, SeqRequest("buy", u, u, 0, item, 0, 0, fail)).r]
    /\ started' = started + 1
    /\ UNCHANGED <<now, credited, robIn, robOut>>

AuditSell == \E u \in Users, item \in ItemIds, fail \in StoreFailModes :
    /\ started < MaxAuditOps
    /\ Commit(Run(DB, now, SeqRequest("sell", u, u, 0, item, 0, 0, fail)).db)
    /\ reqs' = [reqs EXCEPT ![1] = Run(DB, now, SeqRequest("sell", u, u, 0, item, 0, 0, fail)).r]
    /\ started' = started + 1
    /\ UNCHANGED <<now, credited, robIn, robOut>>

AuditUse == \E u \in Users, item \in ItemIds, fail \in StoreFailModes :
    /\ started < MaxAuditOps
    /\ Commit(Run(DB, now, SeqRequest("use", u, u, 0, item, 0, 0, fail)).db)
    /\ reqs' = [reqs EXCEPT ![1] = Run(DB, now, SeqRequest("use", u, u, 0, item, 0, 0, fail)).r]
    /\ started' = started + 1
    /\ UNCHANGED <<now, credited, robIn, robOut>>

NextAudit ==
    \/ AuditDaily \/ AuditWork \/ AuditPay \/ AuditRob \/ AuditBuy \/ AuditSell \/ AuditUse
    \/ Tick

SpecAudit == Init /\ [][NextAudit]_vars

\* the handler of the step ran while the audit insert failed
LogFailed == started' = started + 1 /\ "log" \in reqs'[1].fail

\* the same request on the same store with the audit insert working
WithLog ==
    Run(DB, now, SeqRequest(reqs'[1].cmd, reqs'[1].user, reqs'[1].target,
                            reqs'[1].amount, reqs'[1].item,
                            reqs'[1].rnd1, reqs'[1].rnd2, reqs'[1].fail \ {"log"}))

\* C26: a failure of the audit insert neither blocks nor rolls back the effect
\* of an action: accounts, inventory, cooldown entries and the outcome reported
\* to the caller are the same as when the insert succeeds
C26_LogFailureHarmless ==
    [][ LogFailed
        => /\ profiles' = WithLog.db.profiles
           /\ inventory' = WithLog.db.inventory
           /\ cooldowns' = WithLog.db.cooldowns
           /\ reqs'[1].reply = WithLog.r.reply
      ]_vars

\* a daily was paid and its cooldown armed although nothing reached the log
C26_Witness ==
    /\ reqs[1].cmd = "daily"
    /\ reqs[1].fail = {"log"}
    /\ reqs[1].reply = "ok"
    /\ transactions = <<>>
    /\ profiles[reqs[1].user].coins > reqs[1].prof.coins
    /\ profiles[reqs[1].user].last_daily = reqs[1].at
    /\ \E c \in cooldowns : c.user = reqs[1].user /\ c.command = "daily"
                              /\ c.expires_at > reqs[1].at

\* the records the step appended
Appended == SubSeq(transactions', Len(transactions) + 1, Len(transactions'))

\* the type of the records a command logs
RecordType(cmd) ==
    CASE cmd = "buy"  -> "shop_buy"
      [] cmd = "sell" -> "shop_sell"
      [] cmd = "use"  -> "use_item"
      [] OTHER        -> cmd

\* a request the handler refused (a thrown error is neither success nor refusal)
Rejected(r) == r.pc = "done" /\ ~Succeeded(r) /\ r.reply # "error"

\* C27: the audit log is append-only and counts actions exactly: no action
\* changes or removes a record, each successful daily, work, rob, buy, sell
\* and use appends exactly one record, each successful pay exactly two, and
\* each rejected action none
C27_LogCountsActions ==
    [][ started' = started + 1
        => /\ Len(transactions') >= Len(transactions)
           /\ SubSeq(transactions', 1, Len(transactions)) = transactions
           /\ Succeeded(reqs'[1])
                => /\ Len(Appended) = IF reqs'[1].cmd = "pay" THEN 2 ELSE 1
                   /\ \A k \in 1..Len(Appended) :
                         Appended[k].type = RecordType(reqs'[1].cmd)
           /\ Rejected(reqs'[1]) => Appended = <<>>
      ]_vars

\* a successful pay followed a successful action of another kind: the log
\* holds the record of the first and, after it, the two records of the pay
C27_Witness ==
    /\ reqs[1].cmd = "pay"
    /\ reqs[1].reply = "ok"
    /\ Len(transactions) = 3
    /\ transactions[1].type # "pay"
    /\ transactions[2].type = "pay" /\ transactions[2].user = reqs[1].user
    /\ transactions[3].type = "pay" /\ transactions[3].user = reqs[1].target

----------------------------------------------------------------------------
(* Accounts *)

\* the handler in slot s takes a round trip of getProfile in the step
Referencing(s) ==
    /\ reqs[s].pc \in {"gp_select", "gp_insert", "gp2_select", "gp2_insert"}
    /\ reqs'[s] # reqs[s]

\* the handler in slot s takes the insert of getProfile in the step
Inserting(s) ==
    /\ reqs[s].pc \in {"gp_insert", "gp2_insert"}
    /\ reqs'[s] # reqs[s]

\* the user whose account the getProfile of slot s is about
Referenced(s) ==
    IF reqs[s].pc \in {"gp_select", "gp_insert"} THEN reqs[s].user ELSE reqs[s].target

----------------------------------------------------------------------------
(* The first hours of new users: dailies, purchases and works on a store that
   holds no account yet.  Slot 1 keeps the last request, slot 2 the last
   request that was refused. *)

ScenarioItems == {"medal", "drill", "pickaxe"}

InitScenario ==
    /\ profiles = <<>>
    /\ inventory = {}
    /\ cooldowns = {}
    /\ transactions = <<>>
    /\ settings = DefaultSettings
    /\ now = T0
    /\ started = 0
    /\ credited = [u \in Users |-> StartCoins]
    /\ reqs = [s \in Slots |-> IdleReq]
    /\ robIn = NoRob
    /\ robOut = NoRob

ScenarioDaily == \E u \in Users :
    /\ started < MaxScenarioOps
    /\ Commit(Run(DB, now, SeqRequest("daily", u, u, 0, "", 0, 0, {})).db)
    /\ reqs' = [reqs EXCEPT
                  ![1] = Run(DB, now, SeqRequest("daily", u, u, 0, "", 0, 0, {})).r,
                  ![2] = IF Rejected(Run(DB, now, SeqRequest("daily", u, u, 0, "", 0, 0, {})).r)
                         THEN Run(DB, now, SeqRequest("daily", u, u, 0, "", 0, 0, {})).r
                         ELSE reqs[2]]
    /\ started' = started + 1
    /\ UNCHANGED <<now, credited, robIn, robOut>>

ScenarioBuy == \E u \in Users, item \in ScenarioItems :
    /\ started < MaxScenarioOps
    /\ Commit(Run(DB, now, SeqRequest("buy", u, u, 0, item, 0, 0, {})).db)
    /\ reqs' = [reqs EXCEPT
                  ![1] = Run(DB, now, SeqRequest("buy", u, u, 0, item, 0, 0, {})).r,
                  ![2] = IF Rejected(Run(DB, now, SeqRequest("buy", u, u, 0, item, 0, 0, {})).r)
                         THEN Run(DB, now, SeqRequest("buy", u, u, 0, item, 0, 0, {})).r
                         ELSE reqs[2]]
    /\ started' = started + 1
    /\ UNCHANGED <<now, credited, robIn, robOut>>

ScenarioWork == \E u \in Users, rnd \in Draws :
    /\ started < MaxScenarioOps
    /\ Commit(Run(DB, now, SeqRequest("work", u, u, 0, "", rnd, 0, {})).db)
    /\ reqs' = [reqs EXCEPT
                  ![1] = Run(DB, now, SeqRequest("work", u, u, 0, "", rnd, 0, {})).r,
                  ![2] = IF Rejected(Run(DB, now, SeqRequest("work", u, u, 0, "", rnd, 0, {})).r)
                         THEN Run(DB, now, SeqRequest("work", u, u, 0, "", rnd, 0, {})).r
                         ELSE reqs[2]]
    /\ started' = started + 1
    /\ UNCHANGED <<now, credited, robIn, robOut>>

NextScenario == ScenarioDaily \/ ScenarioBuy \/ ScenarioWork \/ Tick

SpecScenario == InitScenario /\ [][NextScenario]_vars

\* C29: from a fresh account (1000 coins, 0 xp) with daily_amount 500, the
\* first daily gives coins 1500, xp 10, level 1, streak 0; a buy of an item
\* priced 2500 with 1500 coins and an empty inventory is refused for
\* insufficient funds and leaves both as they are; a work with the 25% tool
\* held and a base of 300 adds 375 coins and 37 xp
C29_EndToEnd ==
    [][ /\ (Ran("daily") /\ Before(reqs'[1].user) = NewProfile
                         /\ settings.daily_amount = 500)
          => /\ reqs'[1].reply = "ok"
             /\ profiles'[reqs'[1].user].coins = 1500
             /\ profiles'[reqs'[1].user].xp = 10
             /\ profiles'[reqs'[1].user].level = 1
             /\ profiles'[reqs'[1].user].daily_streak = 0
        /\ (Ran("buy") /\ Catalog[reqs'[1].item].price = 2500
                       /\ Balance(profiles, reqs'[1].user) = 1500
                       /\ InventoryOf(DB, reqs'[1].user) = {})
          => /\ reqs'[1].reply = "insufficient"
             /\ profiles'[reqs'[1].user].coins = 1500
             /\ inventory' = inventory
             /\ transactions' = transactions
        /\ (Worked /\ 25 = LargestBoost(Held(reqs'[1].user))
                   /\ ExpectedBase(reqs'[1].rnd1) = 300)
          => /\ profiles'[reqs'[1].user].coins = Before(reqs'[1].user).coins + 375
             /\ profiles'[reqs'[1].user].xp = Before(reqs'[1].user).xp + 37
      ]_vars

\* one new user has claimed the daily, was refused the 2500 item at 1500
\* coins, bought the 25% tool and worked a base of 300
C29_Witness ==
    /\ started = 4
    /\ reqs[1].cmd = "work" /\ reqs[1].reply = "ok"
    /\ reqs[2].cmd = "buy" /\ reqs[2].reply = "insufficient"
    /\ reqs[2].user = reqs[1].user
    /\ Catalog[reqs[2].item].price = 2500
    /\ reqs[2].prof.coins = 1500 /\ reqs[2].prof.xp = 10
    /\ reqs[2].prof.level = 1 /\ reqs[2].prof.daily_streak = 0
    /\ Len(transactions) = 3
    /\ \A k \in 1..3 : transactions[k].user = reqs[1].user
    /\ transactions[1].type = "daily" /\ transactions[1].amount = <<500>>
    /\ transactions[2].type = "shop_buy" /\ transactions[2].item = "drill"
    /\ transactions[3].type = "work" /\ transactions[3].amount = <<375>>
    /\ transactions[3].meta.base = 300 /\ transactions[3].meta.xp_gain = 37
    /\ profiles[reqs[1].user].coins = 1500 - Catalog["drill"].price + 375
    /\ profiles[reqs[1].user].xp = 47

\* the coins a record says its user gained (a null amount is none)
RecordedGain(rec) == IF rec.amount = <<>> THEN 0 ELSE rec.amount[1]

\* C30: an audit record is appended only after the mutation of its action is
\* committed: whenever a handler run, a failing store write included, appends
\* a shop_buy, shop_sell, pay, daily, work or rob record, the balance of the
\* record's user has changed by the recorded amount
C30_LogAfterMutation ==
    [][ started' = started + 1
        => \A k \in 1..Len(Appended) :
              Appended[k].type \in {"shop_buy", "shop_sell", "pay", "daily", "work", "rob"}
                 => /\ Appended[k].user \in DOMAIN profiles'
                    /\ profiles'[Appended[k].user].coins
                          = Balance(profiles, Appended[k].user) + RecordedGain(Appended[k])
      ]_vars

----------------------------------------------------------------------------
(* Interleaved requests of one account (Spec) *)

\* C31: the lazy deletion of the cooldown check never removes an unexpired
\* entry: in no interleaving does a step delete a cooldown entry that expires
\* after the current time, such as the one an overlapping invocation of the
\* same command has just armed
C31_DeletesOnlyExpired ==
    [][ \A row \in cooldowns \ cooldowns' : row.expires_at <= now ]_vars

\* both slots hold finished sell or use requests of user u for item i that got
\* as far as reading the account
SoldOrUsedTwice(u, i) ==
    \A s \in Slots :
        /\ reqs[s].pc = "done"
        /\ reqs[s].cmd \in {"sell", "use"}
        /\ reqs[s].user = u /\ reqs[s].item = i
        /\ reqs[s].prof # NoProfile

\* C32: a unit of an item is turned into coins at most once: when the
\* interleaved sell (and use) requests of one account for one item are over,
\* the coins the account gained do not exceed floor(price * 0.6) times the
\* units that left its inventory, so two concurrent sells of an entry of
\* quantity 1 credit the sell price at most once
C32_SoldAtMostOnce ==
    \A u \in Users, i \in ItemIds :
        SoldOrUsedTwice(u, i)
          => profiles[u].coins - Min(reqs[1].prof.coins, reqs[2].prof.coins)
                <= Refund(i) * (Max(Quantity(reqs[1].inv, u, i), Quantity(reqs[2].inv, u, i))
                                  - Quantity(inventory, u, i))

\* both slots hold finished purchases of item i by user u that went through
BoughtTwice(u, i) ==
    \A s \in Slots :
        /\ reqs[s].pc = "done"
        /\ reqs[s].cmd = "buy"
        /\ reqs[s].reply = "ok"
        /\ reqs[s].user = u /\ reqs[s].item = i

\* the units of i that u gained over the two purchases (the purchase that read
\* the inventory first saw the quantity before both)
UnitsGained(u, i) ==
    Quantity(inventory, u, i)
        - Min(Quantity(reqs[1].inv, u, i), Quantity(reqs[2].inv, u, i))

\* the coins u lost over the two purchases
CoinsDebited(u) ==
    Max(reqs[1].prof.coins, reqs[2].prof.coins) - profiles[u].coins

\* C33: every unit in an inventory has been paid for: when the interleaved
\* purchases of one item by one account are over, the units gained times the
\* price do not exceed the coins debited, and every purchase that debited the
\* price added one unit
C33_UnitsPaidFor ==
    \A u \in Users, i \in ItemIds :
        BoughtTwice(u, i)
          => /\ UnitsGained(u, i) * Catalog[i].price <= CoinsDebited(u)
             /\ UnitsGained(u, i) = 2

\* C34: xp and level never decrease: in every step of every execution,
\* interleaved dailies, works and uses of one account included, each account's
\* xp and level after the step are at least those before it
C34_XpNeverDecreases ==
    [][ \A u \in DOMAIN profiles :
           /\ profiles'[u].xp >= profiles[u].xp
           /\ profiles'[u].level >= profiles[u].level ]_vars

----------------------------------------------------------------------------
(* Reward and cooldown (SpecAudit) *)

\* the daily or work of the step has written its reward to the account
Rewarded ==
    /\ started' = started + 1
    /\ reqs'[1].cmd \in {"daily", "work"}
    /\ reqs'[1].user \in DOMAIN profiles'
    /\ profiles'[reqs'[1].user].coins > Balance(profiles, reqs'[1].user)

\* C35: a daily or work reward and its cooldown are committed together:
\* whenever the handler finishes having written the reward, an unexpired
\* cooldown entry of the account for the command exists, also when the write
\* to the cooldown store fails
C35_RewardArmsCooldown ==
    [][ Rewarded
        => \E c \in cooldowns' :
              /\ c.user = reqs'[1].user
              /\ c.command = reqs'[1].cmd
              /\ c.expires_at > now ]_vars

----------------------------------------------------------------------------
(* The standalone single-file bot next to the modular command files: /daily *)

\* dailyCommand.execute of the standalone bot, from the profile to the update:
\* the streak is computed as in the modular file, and there is no branch for
\* a last claim less than 24 hours old
standaloneDailyUpdate(db, r) ==
    IF updateFails(r, "upd1")
    THEN Reply(db, r, "error")
    ELSE OutDelta(UpdateRow(db, r.user, dailyUpdates(r.prof, r.at, db.settings)),
                  [r EXCEPT !.pc = "set_cd"],
                  r.user, dailyTotal(r.prof, r.at, db.settings))

standaloneDailyStep(db, t, r) ==
    CASE r.pc = "cd_select" -> checkCooldownSelect(db, t, r, "daily", "gp_select")
      [] r.pc = "cd_delete" -> checkCooldownDelete(db, r, "daily", "gp_select")
      [] r.pc = "gp_select" -> getProfileSelect(db, t, r, r.user, "prof", "update", "gp_insert")
      [] r.pc = "gp_insert" -> getProfileInsert(db, t, r, r.user, "prof", "update")
      [] r.pc = "update"    -> standaloneDailyUpdate(db, r)
      [] r.pc = "set_cd"    ->
            Goto(setCooldown(db, t, r, "daily", db.settings.daily_cooldown_hours), r, "log")
      [] r.pc = "log"       -> Reply(dailyLog(db, r), r, "ok")

RECURSIVE RunStandalone(_, _, _)
RunStandalone(db, t, r) ==
    IF r.pc = "done"
    THEN [db |-> db, r |-> r]
    ELSE LET o == standaloneDailyStep(db, t, r) IN RunStandalone(o.db, t, o.r)

\* the daily cooldowns an administrator has configured
EntryCooldowns == {12, 24}

\* one account whose last claim was gap hours ago, with the cooldown entry
\* that claim armed, or a new account
InitEntry ==
    /\ \E h \in EntryCooldowns :
          /\ settings = [DefaultSettings EXCEPT !.daily_cooldown_hours = h]
          /\ \/ /\ profiles = ("u1" :> NewProfile)
                /\ cooldowns = {}
             \/ \E gap \in DailyGaps, k \in 0..MaxStreak :
                   /\ profiles = ("u1" :> Claimant(gap, k))
                   /\ cooldowns = {Cd("u1", "daily", T0 - gap + h)}
    /\ inventory = {}
    /\ transactions = <<>>
    /\ now = T0
    /\ started = 0
    /\ credited = [u \in Users |-> Balance(profiles, u)]
    /\ reqs = [s \in Slots |-> IdleReq]
    /\ robIn = NoRob
    /\ robOut = NoRob

ModularDaily == \E u \in Users :
    /\ started < MaxEntryOps
    /\ Commit(Run(DB, now, SeqRequest("daily", u, u, 0, "", 0, 0, {})).db)
    /\ reqs' = [reqs EXCEPT ![1] = Run(DB, now, SeqRequest("daily", u, u, 0, "", 0, 0, {})).r]
    /\ started' = started + 1
    /\ UNCHANGED <<now, credited, robIn, robOut>>

StandaloneDaily == \E u \in Users :
    /\ started < MaxEntryOps
    /\ Commit(RunStandalone(DB, now, SeqRequest("daily", u, u, 0, "", 0, 0, {})).db)
    /\ reqs' = [reqs EXCEPT
                  ![1] = RunStandalone(DB, now, SeqRequest("daily", u, u, 0, "", 0, 0, {})).r]
    /\ started' = started + 1
    /\ UNCHANGED <<now, credited, robIn, robOut>>

NextEntry == ModularDaily \/ StandaloneDaily \/ Tick

SpecEntry == InitEntry /\ [][NextEntry]_vars

\* the request of the step
EntryRequest ==
    SeqRequest("daily", reqs'[1].user, reqs'[1].user, 0, "", 0, 0, {})

\* C36: the two entry points are equivalent on state: from every store, a
\* daily handled by the standalone bot and the same daily handled by the
\* modular command file are both accepted or both refused and leave the same
\* accounts, inventory, cooldowns and audit records, also when the last claim
\* is less than 24 hours old and no cooldown entry blocks
C36_EntryPointsAgree ==
    [][ started' = started + 1
        => /\ Run(DB, now, EntryRequest).r.reply
                = RunStandalone(DB, now, EntryRequest).r.reply
           /\ Run(DB, now, EntryRequest).db = RunStandalone(DB, now, EntryRequest).db
      ]_vars

----------------------------------------------------------------------------
(* Consumables that write no profile (SpecSeq) *)

\* the use of the step went through for a consumable whose sub-kind is
\* neither xp_grant nor daily_boost
UsedPlain ==
    /\ Ran("use")
    /\ reqs'[1].reply = "ok"
    /\ Catalog[reqs'[1].item].effect.effect \notin {"xp_grant", "daily_boost"}

----------------------------------------------------------------------------
(* Daily claims one after the other, every store call succeeding, under a
   daily cooldown of 24 hours or more (SpecSteady) *)

\* the daily cooldowns of at least StreakMinHours an administrator has set
SteadyCooldowns == {24, 36}

\* the hours that pass between two requests
WaitHours == {12, 24}

InitSteady ==
    /\ \E h \in SteadyCooldowns :
          /\ settings = [DefaultSettings EXCEPT !.daily_cooldown_hours = h]
          /\ \/ /\ profiles = ("u1" :> NewProfile)
                /\ cooldowns = {}
             \/ \E gap \in DailyGaps, k \in {0, MaxStreak} :
                   /\ profiles = ("u1" :> Claimant(gap, k))
                   /\ cooldowns = {Cd("u1", "daily", T0 - gap + h)}
    /\ inventory = {}
    /\ transactions = <<>>
    /\ now = T0
    /\ started = 0
    /\ credited = [u \in Users |-> Balance(profiles, u)]
    /\ reqs = [s \in Slots |-> IdleReq]
    /\ robIn = NoRob
    /\ robOut = NoRob

SteadyDaily == \E u \in Users :
    /\ started < MaxSteadyOps
    /\ Commit(Run(DB, now, SeqRequest("daily", u, u, 0, "", 0, 0, {})).db)
    /\ reqs' = [reqs EXCEPT ![1] = Run(DB, now, SeqRequest("daily", u, u, 0, "", 0, 0, {})).r]
    /\ started' = started + 1
    /\ UNCHANGED <<now, credited, robIn, robOut>>

Wait == \E h \in WaitHours :
    /\ now + h <= T0 + MaxWait
    /\ now' = now + h
    /\ UNCHANGED <<profiles, inventory, cooldowns, transactions, settings, reqs,
                   started, credited, robIn, robOut>>

NextSteady == SteadyDaily \/ Wait

SpecSteady == InitSteady /\ [][NextSteady]_vars

\* the daily cooldown of every account that has claimed ends no earlier than
\* its last claim + daily_cooldown_hours, and an account that has claimed and
\* has no entry left claimed at least daily_cooldown_hours ago
ExpiryCoversLastDaily ==
    \A u \in DOMAIN profiles :
        profiles[u].last_daily # NoTime
        => /\ \A c \in cooldowns :
                 (c.user = u /\ c.command = "daily")
                 => c.expires_at >= profiles[u].last_daily + settings.daily_cooldown_hours
           /\ (\A c \in cooldowns : ~(c.user = u /\ c.command = "daily"))
                 => now >= profiles[u].last_daily + settings.daily_cooldown_hours

\* C38: with daily_cooldown_hours >= 24, dailies that do not overlap and store
\* calls that succeed, the daily cooldown never ends before last_daily +
\* daily_cooldown_hours; so every daily that passes the cooldown gate finds
\* last_daily null or at least 24 hours old, and the "already claimed"
\* rejection of the modular handler is never given
C38_AlreadyClaimedUnreachable ==
    [][ /\ ExpiryCoversLastDaily
        /\ ExpiryCoversLastDaily'
        /\ Ran("daily")
              => /\ reqs'[1].reply # "already_claimed"
                 /\ reqs'[1].reply # "cooldown"
                       => \/ Before(reqs'[1].user).last_daily = NoTime
                          \/ now - Before(reqs'[1].user).last_daily >= StreakMinHours
      ]_vars

\* a daily passed the gate at the very hour the cooldown of the last claim
\* ended, 24 hours after that claim, and was paid
C38_Witness ==
    /\ reqs[1].cmd = "daily"
    /\ reqs[1].reply = "ok"
    /\ reqs[1].cd = "expired"
    /\ reqs[1].prof.last_daily # NoTime
    /\ reqs[1].at - reqs[1].prof.last_daily = StreakMinHours
    /\ settings.daily_cooldown_hours = StreakMinHours
    /\ started >= 2
    /\ profiles[reqs[1].user].last_daily = reqs[1].at

====
